---- MODULE Spec2Model ----
(***************************************************************************)
(* Agent Network: a mailbox shared through one SQLite store per machine    *)
(* (agent_network_server.py, hooks/*.py) and the peer federation between   *)
(* two machines over HTTP (agent_network_http.py).                         *)
(*                                                                         *)
(* Every SQL statement run in autocommit mode and every BEGIN IMMEDIATE .. *)
(* COMMIT block is one atomic step on the store; a handler that reads in   *)
(* autocommit mode and writes in a later transaction is two steps, so that *)
(* other processes can run in between exactly where the code allows it.    *)
(* The columns role, joined_at and peers.created_at/last_seen, and the     *)
(* audit log, influence no control flow and are not modelled.              *)
(***************************************************************************)
EXTENDS Integers, Sequences, FiniteSets, Bags, TLC

(***************************************************************************)
(* Program constants                                                       *)
(***************************************************************************)
AGENT_EXPIRY_SECONDS == 30
MAX_CONTENT          == 8000
UNREAD_CAP           == 5
RATE_LIMIT           == 10
RATE_WINDOW          == 60
FETCH_LIMIT          == 5
BATCH_CAP            == 3
MESSAGE_TTL_SECONDS  == 604800
PENDING_CAP_PER_PEER == 20
MAX_WAIT             == 90
POLL_INTERVAL        == 2

(***************************************************************************)
(* Universe of the model                                                   *)
(***************************************************************************)
\* L and R have AGENT_NETWORK_HTTP_URL set, U has not.
Machines == {"L", "R", "U"}
\* Session tokens: s1..s4 are sessions of machine L, r1 is one of machine R,
\* u1 one of machine U.
Sids     == {"s1", "s2", "s3", "s4", "r1", "u1"}
MachineOf(s) == IF s = "r1" THEN "R" ELSE IF s = "u1" THEN "U" ELSE "L"
\* HTTP handler threads of a machine's ThreadingHTTPServer.
Threads  == {"h1", "h2"}
NoHeader == "NoHeader"

NULL     == "NULL"

\* The clock is observed at the instants k * period + j.
Instants(period, maxPeriods, maxSecs) ==
  {k * period + j : k \in 0..maxPeriods, j \in 0..maxSecs}

\* Bounds of the fetch specification: message rows, and single seconds the
\* clock may pass before and after the retention period.
MaxMsgsFetch == 1
MaxSecsFetch == 0

\* Bound of the cap specification: message rows.
MaxMsgsCap == 6

\* Bounds of the join specification: how many times the clock may pass
\* the expiry window (by one second), and how many single seconds.
MaxExpiriesJoin == 1
MaxSecsJoin     == 0
\* SpecPeer: the message rows a store may hold (no session is joined there).
MaxMsgsPeer == 0
\* SpecAuth: the message rows a store may hold.
MaxMsgsAuth == 2
\* SpecRelay: the message rows a store may hold, and the clock's reach in
\* cache lifetimes.
MaxMsgsRelay   == 2
MaxCacheRelay  == 1
MaxMsgsCache   == 2
MaxSecsCache   == 1
\* SpecRate: the message rows a store may hold.
MaxMsgsRate    == 11
\* SpecTakeover: the clock's reach in expiry periods and single seconds.
MaxExpiriesTakeover == 1
MaxSecsTakeover     == 1
\* SpecEvict: the message rows a store may hold.
MaxMsgsEvict   == 1
\* SpecSweep: the message rows a store may hold.
MaxMsgsSweep   == 3
\* SpecWait: the last instant of the clock, and the most seconds by which
\* the event loop resumes a sleeping wait_for_message late.
MaxClockWait   == 98
MaxLateness    == 1
\* SpecNap: the message rows a store may hold, and the clock's last instant.
MaxMsgsNap     == 1
MaxClockNap    == 5
\* SpecValid: the message rows a store may hold.
MaxMsgsValid   == 1
\* SpecName: the longest identifier.
MaxLenName     == 2
\* SpecMesh, SpecBcast: the message rows a store may hold.
MaxMsgsMesh    == 1
MaxMsgsBcast   == 6
MaxRemoteBcast == 1
MaxMsgsDeliver == 22
MaxMsgsNets    == 1
FillDeliver    == 18

VARIABLES
  now,        \* the wall clock, in whole seconds (unixepoch('now'))
  sessions,   \* sessions[m]: the rows of machine m's sessions table
  messages,   \* messages[m]: the rows of machine m's messages table
  nextId,     \* nextId[m]: the next AUTOINCREMENT id of messages
  tool,       \* tool[s]: the MCP tool call session s's server process is in
  ret,        \* ret[s]: what the last tool call of session s returned
  peers,      \* peers[m]: the rows of machine m's peers table
  hook,       \* hook[s]: where the PreToolUse hook process of session s is
  http,       \* http[m][h]: the request handler thread h of m is serving,
              \*   or the response it gave last
  race,       \* race[s]: what session s's current join call overlapped with
  cache,      \* cache[s]: _peer_agent_cache of session s's server process
  handed,     \* handed[m]: the bag of message ids fetch calls have returned
  consent,    \* consent[m]: what m's operator did for each peer name
  intact      \* intact[s]: the machines paired with s's machine, on both
              \*   sides, when s's current send was called

storeVars == <<sessions, messages, nextId, peers>>
procVars  == <<tool, ret, hook, http, cache>>
histVars  == <<race, handed, consent, intact>>
vars      == <<now, sessions, messages, nextId, peers, tool, ret, hook, http,
               cache, race, handed, consent, intact>>

Idle == [op |-> "idle"]

(***************************************************************************)
(* The sessions table                                                      *)
(***************************************************************************)
SessionRow(sid, a, n, t) ==
  [session_id |-> sid, agent_id |-> a, network_id |-> n, last_seen |-> t]

\* SELECT ... FROM sessions WHERE session_id = ?
RowsOfSession(S, sid) == {r \in S : r.session_id = sid}

\* SELECT ... FROM sessions WHERE agent_id = ? AND network_id = ?
RowsOfAgent(S, a, n) == {r \in S : r.agent_id = a /\ r.network_id = n}

\* _get_identity: the caller's row, or RuntimeError when there is none.
HasIdentity(S, sid) == RowsOfSession(S, sid) # {}
get_identity(S, sid) == CHOOSE r \in RowsOfSession(S, sid) : TRUE

\* A takeover query that forgets the idle condition.
StaleHoldersNoExpiry(S, sid, a, n, t) ==
  {r \in RowsOfAgent(S, a, n) : r.session_id # sid}

\* A takeover query that already evicts a holder idle for exactly the limit.
StaleHoldersInclusive(S, sid, a, n, t) ==
  {r \in RowsOfAgent(S, a, n) :
     r.session_id # sid /\ (t - r.last_seen) >= AGENT_EXPIRY_SECONDS}

\* join_network's takeover query: another session's row for (a, n) that
\* has been idle for more than AGENT_EXPIRY_SECONDS.
StaleHolders(S, sid, a, n, t) ==
  {r \in RowsOfAgent(S, a, n) :
     r.session_id # sid /\ (t - r.last_seen) > AGENT_EXPIRY_SECONDS}

\* A sessions table declared without UNIQUE(agent_id, network_id).
UniqueConflictMissing(S, sid, a, n) == FALSE

\* The schema's constraints on sessions: PRIMARY KEY(session_id) and
\* UNIQUE(agent_id, network_id).  The upsert resolves a primary-key
\* conflict itself (ON CONFLICT(session_id) DO UPDATE); a UNIQUE conflict
\* with another session's row raises IntegrityError.
UniqueConflict(S, sid, a, n) ==
  \E r \in RowsOfAgent(S, a, n) : r.session_id # sid

\* INSERT ... ON CONFLICT(session_id) DO UPDATE SET agent_id, network_id,
\* role, last_seen = now
Upsert(S, sid, a, n, t) ==
  (S \ RowsOfSession(S, sid)) \cup {SessionRow(sid, a, n, t)}

\* The transaction of join_network: evict one stale holder (fetchone), then
\* upsert; IntegrityError rolls everything back.
AfterEvict(S, sid, a, n, t) ==
  IF StaleHolders(S, sid, a, n, t) = {} THEN S
  ELSE S \ {CHOOSE r \in StaleHolders(S, sid, a, n, t) : TRUE}

JoinTaken(S, sid, a, n, t) ==
  UniqueConflict(AfterEvict(S, sid, a, n, t), sid, a, n)

JoinTable(S, sid, a, n, t) ==
  IF JoinTaken(S, sid, a, n, t) THEN S
  ELSE Upsert(AfterEvict(S, sid, a, n, t), sid, a, n, t)

(***************************************************************************)
(* join_network, leave_network                                             *)
(***************************************************************************)
NoRace == [with |-> {}, holder |-> "none", stale |-> FALSE]

Joining(s, a, n) ==
  tool[s].op = "join" /\ tool[s].agent_id = a /\ tool[s].network_id = n

Returns(s, r) == ret' = [ret EXCEPT ![s] = r]

\* The character class [a-zA-Z0-9_-].
WordChars ==
  {"a", "b", "c", "d", "e", "f", "g", "h", "i", "j", "k", "l", "m",
   "n", "o", "p", "q", "r", "s", "t", "u", "v", "w", "x", "y", "z",
   "A", "B", "C", "D", "E", "F", "G", "H", "I", "J", "K", "L", "M",
   "N", "O", "P", "Q", "R", "S", "T", "U", "V", "W", "X", "Y", "Z",
   "0", "1", "2", "3", "4", "5", "6", "7", "8", "9", "_", "-"}

\* re.match(r'^[a-zA-Z0-9_-]+$', id): one or more characters of the class
\* from the start, then $, which Python matches at the end of the string
\* and also just before a newline that ends the string.
re_match(id) ==
  \E k \in 1..Len(id) :
    /\ \A i \in 1..k : SubSeq(id, i, i) \in WordChars
    /\ \/ k = Len(id)
       \/ k = Len(id) - 1 /\ SubSeq(id, Len(id), Len(id)) = "\n"

\* join_network is entered: the identifier is validated and the session
\* resolved; the call then waits for the write lock (BEGIN IMMEDIATE).
join_call(s, a, n) ==
  /\ tool[s] = Idle
  /\ IF ~re_match(a)
       THEN /\ Returns(s, [op |-> "join", error |-> "invalid_agent_id",
                           agent_id |-> a])
            /\ UNCHANGED <<tool, race>>
       ELSE /\ tool' = [tool EXCEPT ![s] =
                          [op |-> "join", agent_id |-> a, network_id |-> n]]
            /\ ret' = [ret EXCEPT ![s] = Idle]
            /\ race' = [x \in Sids |->
                 IF x = s
                   THEN [NoRace EXCEPT !.with = {y \in Sids \ {s} : Joining(y, a, n)}]
                 ELSE IF Joining(x, a, n)
                   THEN [race[x] EXCEPT !.with = @ \cup {s}]
                 ELSE [race[x] EXCEPT !.with = @ \ {s}]]
  /\ UNCHANGED <<now, storeVars, hook, http, cache, handed, consent, intact>>

\* BEGIN IMMEDIATE ... COMMIT of join_network, or ROLLBACK on IntegrityError.
join_commit(m, s) ==
  /\ tool[s].op = "join"
  /\ LET a == tool[s].agent_id
         n == tool[s].network_id
         S == sessions[m]
         others == {r \in RowsOfAgent(S, a, n) : r.session_id # s}
         taken == JoinTaken(S, s, a, n, now)
     IN /\ sessions' = [sessions EXCEPT ![m] = JoinTable(S, s, a, n, now)]
        /\ ret' = [ret EXCEPT ![s] =
                     [op |-> "join", agent_id |-> a, network_id |-> n,
                      status |-> IF taken THEN "taken" ELSE "joined"]]
        /\ race' = [race EXCEPT ![s].holder =
                        IF others = {} THEN "none"
                        ELSE (CHOOSE r \in others : TRUE).session_id,
                      ![s].stale =
                        (\E r \in others : now - r.last_seen > AGENT_EXPIRY_SECONDS)]
  /\ tool' = [tool EXCEPT ![s] = Idle]
  /\ UNCHANGED <<now, messages, nextId, peers, hook, http, cache, handed, consent, intact>>

\* A leave that also deletes the mail addressed to or sent by the leaver.
leave_network_with_mail(m, s) ==
  /\ tool[s] = Idle
  /\ HasIdentity(sessions[m], s)
  /\ sessions' = [sessions EXCEPT ![m] = @ \ RowsOfSession(@, s)]
  /\ messages' = [messages EXCEPT ![m] =
                    {r \in @ : /\ r.recipient_id # get_identity(sessions[m], s).agent_id
                               /\ r.sender_id # get_identity(sessions[m], s).agent_id}]
  /\ ret' = [ret EXCEPT ![s] = [op |-> "leave", status |-> "left"]]
  /\ UNCHANGED <<now, nextId, peers, tool, hook, http, cache, histVars>>

\* leave_network: _get_identity, then DELETE FROM sessions WHERE session_id.
leave_network(m, s) ==
  /\ tool[s] = Idle
  /\ HasIdentity(sessions[m], s)
  /\ sessions' = [sessions EXCEPT ![m] = @ \ RowsOfSession(@, s)]
  /\ ret' = [ret EXCEPT ![s] = [op |-> "leave", status |-> "left"]]
  /\ UNCHANGED <<now, messages, nextId, peers, tool, hook, http, cache, histVars>>

(***************************************************************************)
(* The messages table                                                      *)
(***************************************************************************)
\* INSERT INTO messages (network_id, sender_id, recipient_id, content
\* [, is_broadcast]): status defaults to 'pending', created_at to now.
\* content is modelled by its length.
MsgRow(id, n, from, to, c, bc, t) ==
  [id |-> id, network_id |-> n, sender_id |-> from, recipient_id |-> to,
   content |-> c, is_broadcast |-> bc, status |-> "pending",
   created_at |-> t, delivered_at |-> NULL]

\* ... FROM messages WHERE recipient_id = ? AND status = 'pending'
Pending(M, to) == {r \in M : r.recipient_id = to /\ r.status = "pending"}

\* A count of the sender's messages to the recipient, fetched or not.
UnreadCountAll(M, from, to) ==
  Cardinality({r \in M : r.sender_id = from /\ r.recipient_id = to})

\* SELECT COUNT(*) ... WHERE sender_id = ? AND recipient_id = ? AND
\* status = 'pending'
UnreadCount(M, from, to) ==
  Cardinality({r \in M : r.sender_id = from /\ r.recipient_id = to
                          /\ r.status = "pending"})

\* A rate window that still holds a message created exactly 60 seconds ago.
RecentCountInclusive(M, from, to, t) ==
  Cardinality({r \in M : r.sender_id = from /\ r.recipient_id = to
                          /\ r.created_at >= t - RATE_WINDOW})

\* SELECT COUNT(*) ... WHERE sender_id = ? AND recipient_id = ? AND
\* created_at > time.time() - 60
RecentCount(M, from, to, t) ==
  Cardinality({r \in M : r.sender_id = from /\ r.recipient_id = to
                          /\ r.created_at > t - RATE_WINDOW})

\* The sequences of length k that ORDER BY created_at LIMIT k may return
\* for the rows P: rows of equal created_at come in either order.
RECURSIVE Oldest(_, _)
Oldest(P, k) ==
  IF k = 0 \/ P = {} THEN {<<>>}
  ELSE UNION {{<<x.id>> \o q : q \in Oldest(P \ {x}, k - 1)} :
                x \in {y \in P : \A z \in P : y.created_at <= z.created_at}}

\* SELECT id, ... WHERE recipient_id = ? AND status = 'pending'
\* ORDER BY created_at LIMIT ?
Batches(M, to, limit) == Oldest(Pending(M, to), limit)

Range(q) == {q[i] : i \in 1..Len(q)}

\* An UPDATE that marks every row of the batch, delivered or not.
MarkAll(M, ids, t) ==
  {IF r.id \in ids
     THEN [r EXCEPT !.status = "delivered", !.delivered_at = t]
     ELSE r : r \in M}

\* UPDATE messages SET status='delivered', delivered_at=now
\* WHERE id IN (...) AND status = 'pending'
MarkDelivered(M, ids, t) ==
  {IF r.id \in ids /\ r.status = "pending"
     THEN [r EXCEPT !.status = "delivered", !.delivered_at = t]
     ELSE r : r \in M}

\* UPDATE sessions SET last_seen = now WHERE session_id = ?
Touch(S, sid, t) ==
  {IF r.session_id = sid THEN [r EXCEPT !.last_seen = t] ELSE r : r \in S}

\* Rows that tool calls in flight have yet to insert.
ToInsert(s) ==
  IF tool[s].op = "send" THEN 1
  ELSE IF tool[s].op = "broadcast" THEN Cardinality(tool[s].others)
  ELSE 0

RECURSIVE SumToInsert(_)
SumToInsert(ss) ==
  IF ss = {} THEN 0
  ELSE LET s == CHOOSE x \in ss : TRUE IN ToInsert(s) + SumToInsert(ss \ {s})

\* The model stops creating messages at max rows per store.
Room(m, max) == (nextId[m] - 1) + SumToInsert(Sids)

\* A sweep that already deletes a message delivered exactly one retention
\* period ago.
PurgeInclusive(M, t) ==
  {r \in M : ~(r.status = "delivered"
               /\ r.delivered_at <= t - MESSAGE_TTL_SECONDS)}

\* DELETE FROM messages WHERE status = 'delivered'
\* AND delivered_at < now - MESSAGE_TTL_SECONDS
Purge(M, t) ==
  {r \in M : ~(r.status = "delivered"
               /\ r.delivered_at < t - MESSAGE_TTL_SECONDS)}

\* A SELECT that takes every peer record, whatever its status.
AnyPeers(P) == P

\* SELECT name, url, shared_secret FROM peers
\* WHERE status = 'approved' AND direction = 'mutual'
ApprovedPeers(P) == {r \in P : r.status = "approved" /\ r.direction = "mutual"}

\* _try_send_to_peer with no approved peer to ask returns None.
try_send_to_peer_none(m) == ApprovedPeers(peers[m]) = {}

\* The machines x that m holds an approved/mutual record for (by URL) and
\* that hold an approved/mutual record for m (by m's machine name).
PairedWith(m) ==
  {x \in Machines \ {m} :
     /\ \E r \in ApprovedPeers(peers[m]) : r.url = x
     /\ \E r \in ApprovedPeers(peers[x]) : r.name = m}

(***************************************************************************)
(* send_message                                                            *)
(***************************************************************************)
\* A size check that also turns away content of exactly the maximum.
TooLargeInclusive(c) == c >= MAX_CONTENT

\* if len(content) > 8000: "Message too large ({len(content)} chars)"
TooLarge(c) == c > MAX_CONTENT

\* send_message up to its last read: identity, size check, recipient
\* lookup, unread cap, rate cap.  All of it runs in autocommit mode.
send_message(m, s, to, c, max) ==
  /\ tool[s] = Idle
  /\ HasIdentity(sessions[m], s)
  /\ Room(m, max) < max
  /\ LET me == get_identity(sessions[m], s)
         a  == me.agent_id
         n  == me.network_id
         M  == messages[m]
     IN IF TooLarge(c)
          THEN /\ Returns(s, [op |-> "send", error |-> "too_large", size |-> c])
               /\ UNCHANGED tool
        ELSE IF RowsOfAgent(sessions[m], to, n) = {}
          THEN IF try_send_to_peer_none(m)
                 THEN /\ Returns(s, [op |-> "send", error |-> "not_found"])
                      /\ UNCHANGED tool
                 ELSE /\ tool' = [tool EXCEPT ![s] =
                                    [op |-> "relay", agent_id |-> a,
                                     network_id |-> n, to |-> to, content |-> c,
                                     peers |-> ApprovedPeers(peers[m]),
                                     posted |-> {}]]
                      /\ Returns(s, Idle)
        ELSE IF UnreadCount(M, a, to) >= UNREAD_CAP
          THEN /\ Returns(s, [op |-> "send", error |-> "inbox_full"])
               /\ UNCHANGED tool
        ELSE IF RecentCount(M, a, to, now) >= RATE_LIMIT
          THEN /\ Returns(s, [op |-> "send", error |-> "rate_limited"])
               /\ UNCHANGED tool
        ELSE /\ tool' = [tool EXCEPT ![s] =
                           [op |-> "send", agent_id |-> a, network_id |-> n,
                            to |-> to, content |-> c]]
             /\ Returns(s, Idle)
  /\ intact' = [intact EXCEPT ![s] = PairedWith(m)]
  /\ UNCHANGED <<now, storeVars, hook, http, cache, race, handed, consent>>

\* BEGIN IMMEDIATE; INSERT INTO messages ...; COMMIT of send_message.
send_insert(m, s) ==
  /\ tool[s].op = "send"
  /\ messages' = [messages EXCEPT ![m] = @ \cup
                    {MsgRow(nextId[m], tool[s].network_id, tool[s].agent_id,
                            tool[s].to, tool[s].content, FALSE, now)}]
  /\ nextId' = [nextId EXCEPT ![m] = @ + 1]
  /\ Returns(s, [op |-> "send", status |-> "sent", message_id |-> nextId[m],
                 to |-> tool[s].to])
  /\ tool' = [tool EXCEPT ![s] = Idle]
  /\ UNCHANGED <<now, sessions, peers, hook, http, cache, histVars>>

(***************************************************************************)
(* broadcast                                                               *)
(***************************************************************************)
\* broadcast up to its recipient query, which runs in autocommit mode.
broadcast(m, s, c, max) ==
  /\ tool[s] = Idle
  /\ HasIdentity(sessions[m], s)
  /\ LET me == get_identity(sessions[m], s)
         others == {r.agent_id : r \in {x \in sessions[m] :
                       x.network_id = me.network_id /\ x.agent_id # me.agent_id}}
     IN /\ Room(m, max) + Cardinality(others) <= max
        /\ IF c > MAX_CONTENT
             THEN /\ Returns(s, [op |-> "broadcast", error |-> "too_large"])
                  /\ UNCHANGED tool
           ELSE IF others = {}
             THEN /\ Returns(s, [op |-> "broadcast", status |-> "no_recipients"])
                  /\ UNCHANGED tool
           ELSE /\ tool' = [tool EXCEPT ![s] =
                              [op |-> "broadcast", agent_id |-> me.agent_id,
                               network_id |-> me.network_id, others |-> others,
                               content |-> c]]
                /\ Returns(s, Idle)
  /\ UNCHANGED <<now, storeVars, hook, http, cache, histVars>>

RECURSIVE Perms(_)
Perms(S) ==
  IF S = {} THEN {<<>>}
  ELSE UNION {{<<x>> \o q : q \in Perms(S \ {x})} : x \in S}

\* The recipients of a broadcast that are under both caps.
UnderCaps(M, from, tos, t) ==
  {to \in tos : /\ UnreadCount(M, from, to) < UNREAD_CAP
                /\ RecentCount(M, from, to, t) < RATE_LIMIT}

\* A result that counts the remote deliveries among the local recipients.
BroadcastResultTotal(sent, skipped, remote) ==
  [op |-> "broadcast", status |-> "broadcast_sent",
   recipient_count |-> sent + remote, skipped |-> skipped]

\* The result of broadcast; remote_count is reported when it is positive.
BroadcastResult(sent, skipped, remote) ==
  IF remote > 0
    THEN [op |-> "broadcast", status |-> "broadcast_sent",
          recipient_count |-> sent, skipped |-> skipped, remote_count |-> remote]
    ELSE [op |-> "broadcast", status |-> "broadcast_sent",
          recipient_count |-> sent, skipped |-> skipped]

\* BEGIN IMMEDIATE; per recipient: both cap checks, INSERT; COMMIT.  The
\* recipients come in the order of an unordered SELECT.  Then the approved
\* peers are read: with none the result is returned, else the loop over
\* them starts.
broadcast_commit(m, s) ==
  /\ tool[s].op = "broadcast"
  /\ LET a  == tool[s].agent_id
         ok == UnderCaps(messages[m], a, tool[s].others, now)
         skipped == tool[s].others \ ok
     IN \E q \in Perms(ok) :
          /\ messages' = [messages EXCEPT ![m] = @ \cup
                {MsgRow(nextId[m] + i - 1, tool[s].network_id, a, q[i],
                        tool[s].content, TRUE, now) : i \in 1..Len(q)}]
          /\ nextId' = [nextId EXCEPT ![m] = @ + Len(q)]
          /\ IF ApprovedPeers(peers[m]) = {}
               THEN /\ Returns(s, BroadcastResult(Len(q), skipped, 0))
                    /\ tool' = [tool EXCEPT ![s] = Idle]
               ELSE /\ tool' = [tool EXCEPT ![s] =
                                  [op |-> "broadcast_relay", agent_id |-> a,
                                   network_id |-> tool[s].network_id,
                                   content |-> tool[s].content,
                                   recipient_count |-> Len(q),
                                   skipped |-> skipped, remote_count |-> 0,
                                   peers |-> ApprovedPeers(peers[m])]]
                    /\ UNCHANGED ret
  /\ UNCHANGED <<now, sessions, peers, hook, http, cache, histVars>>

(***************************************************************************)
(* check_inbox (_fetch_and_deliver) and the PreToolUse hook                *)
(***************************************************************************)
\* check_inbox up to the SELECT of _fetch_and_deliver (autocommit); an
\* empty result returns at once.
check_inbox(m, s) ==
  /\ tool[s] = Idle
  /\ HasIdentity(sessions[m], s)
  /\ LET a == get_identity(sessions[m], s).agent_id
     IN \E q \in Batches(messages[m], a, FETCH_LIMIT) :
          IF q = <<>>
            THEN /\ Returns(s, [op |-> "fetch", messages |-> <<>>, remaining |-> 0])
                 /\ UNCHANGED tool
            ELSE /\ tool' = [tool EXCEPT ![s] =
                               [op |-> "fetch", agent_id |-> a, rows |-> q]]
                 /\ Returns(s, Idle)
  /\ UNCHANGED <<now, storeVars, hook, http, cache, histVars>>

\* The rest of _fetch_and_deliver: the UPDATE in its own transaction, the
\* count of what remains, the last_seen refresh, the result.
fetch_and_deliver(m, s) ==
  /\ tool[s].op = "fetch"
  /\ LET q == tool[s].rows
         M == MarkDelivered(messages[m], Range(q), now)
     IN /\ messages' = [messages EXCEPT ![m] = M]
        /\ Returns(s, [op |-> "fetch", messages |-> q,
                       remaining |-> Cardinality(Pending(M, tool[s].agent_id))])
        /\ handed' = [handed EXCEPT ![m] = @ (+) SetToBag(Range(q))]
  /\ sessions' = [sessions EXCEPT ![m] = Touch(@, s, now)]
  /\ tool' = [tool EXCEPT ![s] = Idle]
  /\ UNCHANGED <<now, nextId, peers, hook, http, cache, race, consent, intact>>

\* hooks/check_inbox.py up to its SELECT: session lookup, batch of at most
\* BATCH_CAP rows; nothing pending ends the hook.
hook_check_inbox(m, s) ==
  /\ hook[s] = Idle
  /\ HasIdentity(sessions[m], s)
  /\ LET a == get_identity(sessions[m], s).agent_id
     IN \E q \in Batches(messages[m], a, BATCH_CAP) :
          /\ q # <<>>
          /\ hook' = [hook EXCEPT ![s] = [op |-> "fetch", agent_id |-> a, rows |-> q]]
  /\ UNCHANGED <<now, storeVars, tool, ret, http, cache, histVars>>

\* hooks/check_inbox.py from its UPDATE on: mark delivered, count, refresh
\* last_seen, print the messages.
hook_deliver(m, s) ==
  /\ hook[s].op = "fetch"
  /\ messages' = [messages EXCEPT ![m] = MarkDelivered(@, Range(hook[s].rows), now)]
  /\ sessions' = [sessions EXCEPT ![m] = Touch(@, s, now)]
  /\ handed' = [handed EXCEPT ![m] = @ (+) SetToBag(Range(hook[s].rows))]
  /\ hook' = [hook EXCEPT ![s] = Idle]
  /\ UNCHANGED <<now, nextId, peers, tool, ret, http, cache, race, consent, intact>>

\* hooks/stop_hook.py, run with the session id and the flag
\* stop_hook_active of its input: a session without identity or without
\* pending messages may stop; otherwise the stop is blocked.
stop_hook(m, s, active) ==
  /\ tool[s] = Idle
  /\ LET pending == IF HasIdentity(sessions[m], s)
                      THEN Cardinality(Pending(messages[m],
                                               get_identity(sessions[m], s).agent_id))
                      ELSE 0
     IN Returns(s, [op |-> "stop", stop_hook_active |-> active,
                    decision |-> IF pending > 0 THEN "block" ELSE "allow"])
  /\ UNCHANGED <<now, storeVars, tool, hook, http, cache, histVars>>

\* hooks/session_start.py: the retention sweep.
session_start(m) ==
  /\ messages' = [messages EXCEPT ![m] = Purge(@, now)]
  /\ messages'[m] # messages[m]
  /\ UNCHANGED <<now, sessions, nextId, peers, procVars, histVars>>

\* Time passes, to a later instant of T.
Tick(T) ==
  /\ \E t \in T : t > now /\ now' = t
  /\ UNCHANGED <<storeVars, procVars, histVars>>

(***************************************************************************)
(* The peers table and the pairing handshake                               *)
(***************************************************************************)
\* A row of peers: name is the primary key.
PeerRow(name, url, secret, status, direction) ==
  [name |-> name, url |-> url, shared_secret |-> secret,
   status |-> status, direction |-> direction]

\* SELECT ... FROM peers WHERE name = ?
PeerNamed(P, name) == {r \in P : r.name = name}

\* AGENT_NETWORK_MACHINE_NAME (or the host name) of machine m.
get_machine_name(m) == m

\* AGENT_NETWORK_HTTP_URL of machine m: a URL is modelled by the machine
\* whose HTTP server listens there; any other URL reaches nobody.
get_local_url(m) == IF m = "U" THEN NULL ELSE m

\* URLs that reach a server but none of its routes: do_POST answers 404.
Strangers == {"R/x"}

\* _http_request: an Authorization header is sent only for a non-empty
\* secret; the header is modelled by the token after "Bearer ".
AuthHeader(secret) == IF secret = "" THEN NoHeader ELSE secret

\* An insert that leaves an existing record of the name as it is.
PairInsertOrIgnore(P, name, url, secret, direction) ==
  IF \E r \in P : r.name = name THEN P
  ELSE P \cup {[name |-> name, url |-> url, shared_secret |-> secret,
                status |-> "pending", direction |-> direction]}

\* INSERT INTO peers ... VALUES (?, ?, ?, 'pending', <direction>)
\* ON CONFLICT(name) DO UPDATE SET url, shared_secret, status, direction
PairUpsert(P, name, url, secret, direction) ==
  (P \ PeerNamed(P, name)) \cup {PeerRow(name, url, secret, "pending", direction)}

\* UPDATE peers SET status = 'approved', direction = 'mutual' WHERE name = ?
ApproveFlip(P, name) ==
  {IF r.name = name
     THEN [r EXCEPT !.status = "approved", !.direction = "mutual"]
     ELSE r : r \in P}

\* A rollback that resets the status and leaves the direction.
RevertStatusOnly(P, name) ==
  {IF r.name = name THEN [r EXCEPT !.status = "pending"] ELSE r : r \in P}

\* UPDATE peers SET status = 'pending', direction = 'inbound' WHERE name = ?
Revert(P, name) ==
  {IF r.name = name
     THEN [r EXCEPT !.status = "pending", !.direction = "inbound"]
     ELSE r : r \in P}

\* What the operator of a machine has done for the record of a name:
\* "inbound" marks a record created by a pairing request, "approved" one
\* the local approve_peer has flipped.
Forget(C, name) == {c \in C : c[1] # name}

\* INSERT INTO messages ... VALUES ('_peer_system', '_system', ?, ?) for
\* every row of SELECT agent_id FROM sessions, in the order q.
Notifications(q, id0, t) ==
  {MsgRow(id0 + i - 1, "_peer_system", "_system", q[i].agent_id, 1, FALSE, t) :
     i \in 1..Len(q)}

Serving(m, h) == http[m][h].op = "deliver"

Responds(m, h, r) == http' = [http EXCEPT ![m][h] = r]

\* The status code _handle_pair_request answers with.
PairRequestCode(name, url) == IF name = "" \/ url = "" THEN 400 ELSE 200

\* A handler that writes the record before it looks at the fields.
handle_pair_request_unchecked(r, name, url, secret, max) ==
  /\ peers' = [peers EXCEPT ![r] = PairUpsert(@, name, url, secret, "inbound")]
  /\ consent' = [consent EXCEPT ![r] = Forget(@, name) \cup {<<name, "inbound">>}]
  /\ IF PairRequestCode(name, url) = 400
       THEN UNCHANGED <<messages, nextId>>
       ELSE /\ Room(r, max) + Cardinality(sessions[r]) <= max
            /\ \E q \in Perms(sessions[r]) :
                 messages' = [messages EXCEPT ![r] =
                                @ \cup Notifications(q, nextId[r], now)]
            /\ nextId' = [nextId EXCEPT ![r] = @ + Cardinality(sessions[r])]

\* _handle_pair_request on machine r: the record becomes pending/inbound
\* whatever it was, and every local session is notified.
handle_pair_request(r, name, url, secret, max) ==
  IF PairRequestCode(name, url) = 400
    THEN UNCHANGED <<peers, messages, nextId, consent>>
  ELSE /\ Room(r, max) + Cardinality(sessions[r]) <= max
       /\ peers' = [peers EXCEPT ![r] = PairUpsert(@, name, url, secret, "inbound")]
       /\ \E q \in Perms(sessions[r]) :
            messages' = [messages EXCEPT ![r] = @ \cup Notifications(q, nextId[r], now)]
       /\ nextId' = [nextId EXCEPT ![r] = @ + Cardinality(sessions[r])]
       /\ consent' = [consent EXCEPT ![r] = Forget(@, name) \cup {<<name, "inbound">>}]

\* The status code _handle_pair_accept answers with.
PairAcceptCode(P, name) ==
  IF name = "" THEN 400 ELSE IF PeerNamed(P, name) = {} THEN 404 ELSE 200

\* _handle_pair_accept on machine r: no credential is asked for; a record
\* of that name, whatever its state, becomes approved/mutual.
handle_pair_accept(r, name, max) ==
  IF PairAcceptCode(peers[r], name) # 200
    THEN UNCHANGED <<peers, messages, nextId, consent>>
  ELSE /\ Room(r, max) + Cardinality(sessions[r]) <= max
       /\ peers' = [peers EXCEPT ![r] = ApproveFlip(@, name)]
       /\ \E q \in Perms(sessions[r]) :
            messages' = [messages EXCEPT ![r] = @ \cup Notifications(q, nextId[r], now)]
       /\ nextId' = [nextId EXCEPT ![r] = @ + Cardinality(sessions[r])]
       /\ UNCHANGED consent

\* POST /api/pair/request sent by any client that can reach machine r.
post_pair_request(r, name, url, secret, max) ==
  /\ handle_pair_request(r, name, url, secret, max)
  /\ UNCHANGED <<now, sessions, procVars, race, handed, intact>>

\* POST /api/pair/request served by thread h of machine r, with the
\* response the client gets.
pair_request(r, h, name, url, secret, max) ==
  /\ ~Serving(r, h)
  /\ handle_pair_request(r, name, url, secret, max)
  /\ Responds(r, h, [op |-> "response", code |-> PairRequestCode(name, url),
                     path |-> "pair_request", header |-> NoHeader])
  /\ UNCHANGED <<now, sessions, tool, ret, hook, cache, race, handed, intact>>

\* POST /api/pair/accept sent by any client that can reach machine r.
post_pair_accept(r, name, max) ==
  /\ PairAcceptCode(peers[r], name) = 200
  /\ handle_pair_accept(r, name, max)
  /\ UNCHANGED <<now, sessions, procVars, race, handed, intact>>

(***************************************************************************)
(* pair_with, approve_peer, remove_peer                                    *)
(***************************************************************************)
\* pair_with up to its read of the existing record (autocommit).
pair_with(m, s, url, name, secret) ==
  /\ tool[s] = Idle
  /\ IF get_local_url(m) = NULL
       THEN /\ Returns(s, [op |-> "pair", error |-> "no_local_url"])
            /\ UNCHANGED tool
     ELSE IF ~re_match(name)
       THEN /\ Returns(s, [op |-> "pair", error |-> "invalid_name"])
            /\ UNCHANGED tool
     ELSE IF \E r \in PeerNamed(peers[m], name) : r.direction = "mutual"
       THEN /\ Returns(s, [op |-> "pair", error |-> "already_paired"])
            /\ UNCHANGED tool
     ELSE /\ tool' = [tool EXCEPT ![s] =
                        [op |-> "pair", url |-> url, name |-> name,
                         secret |-> secret]]
          /\ Returns(s, Idle)
  /\ UNCHANGED <<now, storeVars, hook, http, cache, histVars>>

\* BEGIN IMMEDIATE; INSERT ... ON CONFLICT DO UPDATE; COMMIT of pair_with.
pair_upsert(m, s) ==
  /\ tool[s].op = "pair"
  /\ peers' = [peers EXCEPT ![m] =
                 PairUpsert(@, tool[s].name, tool[s].url, tool[s].secret, "outbound")]
  /\ consent' = [consent EXCEPT ![m] = Forget(@, tool[s].name)]
  /\ tool' = [tool EXCEPT ![s].op = "pair_notify"]
  /\ UNCHANGED <<now, sessions, messages, nextId, ret, hook, http, cache, race, handed, intact>>

\* The POST of pair_with to <url>/api/pair/request, carrying this machine's
\* name and URL, and the result the tool returns.  up says whether the
\* connection succeeds.
pair_notify(m, s, up, max) ==
  /\ tool[s].op = "pair_notify"
  /\ LET url == tool[s].url
         status_code == IF up /\ url \in Machines
                          THEN PairRequestCode(get_machine_name(m), get_local_url(m))
                        ELSE IF up /\ url \in Strangers THEN 404
                        ELSE 0
     IN /\ IF status_code \in {0, 404}
             THEN UNCHANGED <<peers, messages, nextId, consent>>
             ELSE handle_pair_request(url, get_machine_name(m), get_local_url(m),
                                      tool[s].secret, max)
        /\ Returns(s, [op |-> "pair", status |-> "pending", peer |-> tool[s].name,
                       url |-> url, status_code |-> status_code])
  /\ tool' = [tool EXCEPT ![s] = Idle]
  /\ UNCHANGED <<now, sessions, hook, http, cache, race, handed, intact>>

\* approve_peer up to its read of the record (autocommit).
approve_peer(m, s, peer_id) ==
  /\ tool[s] = Idle
  /\ LET found == PeerNamed(peers[m], peer_id)
     IN IF found = {}
          THEN /\ Returns(s, [op |-> "approve", error |-> "not_found"])
               /\ UNCHANGED tool
        ELSE LET peer == CHOOSE r \in found : TRUE
             IN IF peer.direction = "mutual" /\ peer.status = "approved"
                  THEN /\ Returns(s, [op |-> "approve", error |-> "already_approved"])
                       /\ UNCHANGED tool
                ELSE IF peer.status # "pending"
                  THEN /\ Returns(s, [op |-> "approve", error |-> "not_pending"])
                       /\ UNCHANGED tool
                ELSE /\ tool' = [tool EXCEPT ![s] =
                                   [op |-> "approve", peer_id |-> peer_id,
                                    url |-> peer.url]]
                     /\ Returns(s, Idle)
  /\ UNCHANGED <<now, storeVars, hook, http, cache, histVars>>

\* BEGIN IMMEDIATE; UPDATE peers SET status = 'approved', ...; COMMIT.
approve_flip(m, s) ==
  /\ tool[s].op = "approve"
  /\ peers' = [peers EXCEPT ![m] = ApproveFlip(@, tool[s].peer_id)]
  /\ consent' = [consent EXCEPT ![m] =
                   IF PeerNamed(peers[m], tool[s].peer_id) = {} THEN @
                   ELSE @ \cup {<<tool[s].peer_id, "approved">>}]
  /\ tool' = [tool EXCEPT ![s].op = "approve_notify"]
  /\ UNCHANGED <<now, sessions, messages, nextId, ret, hook, http, cache, race, handed, intact>>

\* The POST of approve_peer to <peer url>/api/pair/accept, carrying this
\* machine's name; the local flip is undone only when the connection
\* failed (status_code 0).
approve_notify(m, s, up, max) ==
  /\ tool[s].op = "approve_notify"
  /\ LET url == tool[s].url
         peer_id == tool[s].peer_id
         status_code == IF up /\ url \in Machines
                          THEN PairAcceptCode(peers[url], get_machine_name(m))
                        ELSE IF up /\ url \in Strangers THEN 404
                        ELSE 0
     IN IF status_code = 0
          THEN /\ peers' = [peers EXCEPT ![m] = Revert(@, peer_id)]
               /\ consent' = [consent EXCEPT ![m] = @ \ {<<peer_id, "approved">>}]
               /\ Returns(s, [op |-> "approve", error |-> "unreachable",
                              peer |-> peer_id, status_code |-> 0])
               /\ UNCHANGED <<messages, nextId>>
        ELSE /\ IF url \in Machines
                  THEN handle_pair_accept(url, get_machine_name(m), max)
                  ELSE UNCHANGED <<peers, messages, nextId, consent>>
             /\ Returns(s, [op |-> "approve", status |-> "approved",
                            peer |-> peer_id, url |-> url,
                            status_code |-> status_code])
  /\ tool' = [tool EXCEPT ![s] = Idle]
  /\ UNCHANGED <<now, sessions, hook, http, cache, race, handed, intact>>

\* remove_peer: the record is looked up and deleted.
remove_peer(m, s, peer_id) ==
  /\ tool[s] = Idle
  /\ IF PeerNamed(peers[m], peer_id) = {}
       THEN /\ Returns(s, [op |-> "remove", error |-> "not_found"])
            /\ UNCHANGED <<peers, consent>>
     ELSE /\ peers' = [peers EXCEPT ![m] = @ \ PeerNamed(@, peer_id)]
          /\ consent' = [consent EXCEPT ![m] = Forget(@, peer_id)]
          /\ Returns(s, [op |-> "remove", status |-> "removed", peer |-> peer_id])
  /\ UNCHANGED <<now, sessions, messages, nextId, tool, hook, http, cache, race, handed, intact>>

(***************************************************************************)
(* The bearer-authenticated endpoints                                      *)
(***************************************************************************)
\* A peer lookup that honours a matching secret whatever the record's state.
AuthPeerAnyStatus(P, header) ==
  IF header = NoHeader THEN {} ELSE {r \in P : r.shared_secret = header}

\* _auth_peer: without "Bearer " nobody; otherwise the rows whose secret is
\* the token and whose state is approved/mutual (fetchone takes one).
auth_peer(P, header) ==
  IF header = NoHeader THEN {}
  ELSE {r \in ApprovedPeers(P) : r.shared_secret = header}

\* A count that leaves one pending message of the sender out.
PendingFromShort(M, from) ==
  Cardinality({r \in M : r.sender_id = from /\ r.status = "pending"}) - 1

\* SELECT COUNT(*) FROM messages WHERE sender_id = ? AND status = 'pending'
PendingFrom(M, from) ==
  Cardinality({r \in M : r.sender_id = from /\ r.status = "pending"})

\* Rows that HTTP deliveries in flight on m have yet to insert.
RECURSIVE HttpToInsert(_, _)
HttpToInsert(m, hs) ==
  IF hs = {} THEN 0
  ELSE LET h == CHOOSE x \in hs : TRUE
       IN (IF Serving(m, h) THEN Len(http[m][h].to) ELSE 0)
            + HttpToInsert(m, hs \ {h})

\* _handle_deliver up to its last read: authentication, size check, the
\* pending cap of the sender, the recipient lookup.
deliver_request(m, h, header, from, n, to, c, bc, max) ==
  /\ ~Serving(m, h)
  /\ LET req == [path |-> "deliver", header |-> header]
         tos == {r \in sessions[m] : r.network_id = n}
     IN IF auth_peer(peers[m], header) = {}
          THEN Responds(m, h, [op |-> "response", code |-> 401] @@ req)
        ELSE IF c > MAX_CONTENT
          THEN Responds(m, h, [op |-> "response", code |-> 400] @@ req)
        ELSE IF PendingFrom(messages[m], from) >= PENDING_CAP_PER_PEER
          THEN Responds(m, h, [op |-> "response", code |-> 429] @@ req)
        ELSE IF bc
          THEN /\ Room(m, max) + HttpToInsert(m, Threads) + Cardinality(tos) <= max
               /\ \E q \in Perms(tos) :
                    Responds(m, h, [op |-> "deliver", sender_id |-> from,
                                    network_id |-> n, content |-> c,
                                    is_broadcast |-> TRUE,
                                    to |-> [i \in 1..Len(q) |-> q[i].agent_id]] @@ req)
        ELSE IF to = NULL
          THEN Responds(m, h, [op |-> "response", code |-> 400] @@ req)
        ELSE IF RowsOfAgent(sessions[m], to, n) = {}
          THEN Responds(m, h, [op |-> "response", code |-> 404] @@ req)
        ELSE /\ Room(m, max) + HttpToInsert(m, Threads) + 1 <= max
             /\ Responds(m, h, [op |-> "deliver", sender_id |-> from,
                                network_id |-> n, content |-> c,
                                is_broadcast |-> FALSE, to |-> <<to>>] @@ req)

\* POST /api/deliver sent by any client that can reach machine m.
handle_deliver(m, h, header, from, n, to, c, bc, max) ==
  /\ deliver_request(m, h, header, from, n, to, c, bc, max)
  /\ UNCHANGED <<now, storeVars, tool, ret, hook, cache, histVars>>

\* BEGIN IMMEDIATE; INSERT INTO messages ... (one row per recipient);
\* COMMIT; 200 delivered.
deliver_insert(m, h) ==
  /\ Serving(m, h)
  /\ LET d == http[m][h]
     IN /\ messages' = [messages EXCEPT ![m] = @ \cup
              {MsgRow(nextId[m] + i - 1, d.network_id, d.sender_id, d.to[i],
                      d.content, d.is_broadcast, now) : i \in 1..Len(d.to)}]
        /\ nextId' = [nextId EXCEPT ![m] = @ + Len(d.to)]
        /\ Responds(m, h, [op |-> "response", code |-> 200, path |-> "deliver",
                           header |-> d.header, delivered_count |-> Len(d.to)])
  /\ UNCHANGED <<now, sessions, peers, tool, ret, hook, cache, histVars>>

\* _handle_agents: authentication, then the sessions of the network (of
\* every network when none is named) with their liveness.
handle_agents(m, h, header, n) ==
  /\ ~Serving(m, h)
  /\ LET req == [path |-> "agents", header |-> header]
         rows == IF n # NULL THEN {r \in sessions[m] : r.network_id = n}
                 ELSE sessions[m]
     IN IF auth_peer(peers[m], header) = {}
          THEN Responds(m, h, [op |-> "response", code |-> 401] @@ req)
        ELSE Responds(m, h, [op |-> "response", code |-> 200,
                             agents |-> {[agent_id |-> r.agent_id,
                                          is_active |-> (now - r.last_seen) < 30] :
                                           r \in rows}] @@ req)
  /\ UNCHANGED <<now, storeVars, tool, ret, hook, cache, histVars>>

(***************************************************************************)
(* The relay of send_message to approved peers (_try_send_to_peer)         *)
(***************************************************************************)
\* The agent ids GET <url>/api/agents?network_id=n answers with, and the
\* status code: 0 when the connection fails, 401 when _auth_peer of the
\* remote machine finds nobody.
AgentsStatus(url, header, up) ==
  IF ~up \/ url \notin Machines THEN 0
  ELSE IF auth_peer(peers[url], header) = {} THEN 401
  ELSE 200

AgentsListed(url, n) == {r.agent_id : r \in {x \in sessions[url] : x.network_id = n}}

\* A lookup that still trusts an entry that is exactly 30 seconds old.
CacheHitInclusive(C, name, n, t) ==
  {e \in C : e.peer = name /\ e.network_id = n /\ t - e.fetched_at <= 30}

\* The entries of _peer_agent_cache for "<peer_name>:<network_id>" younger
\* than 30 seconds.
CacheHit(C, name, n, t) ==
  {e \in C : e.peer = name /\ e.network_id = n /\ t - e.fetched_at < 30}

\* _peer_agent_cache[cache_key] = {"agents": agents, "fetched_at": now}
CachePut(C, name, n, agents, t) ==
  {e \in C : ~(e.peer = name /\ e.network_id = n)}
    \cup {[peer |-> name, network_id |-> n, agents |-> agents, fetched_at |-> t]}

\* The loop of _try_send_to_peer moves on: to the next peer, or out of the
\* loop, where send_message answers "not found".  posted records the peers
\* this call has sent a deliver POST to.
RelayNext(s, rest, posted) ==
  IF rest = {}
    THEN /\ tool' = [tool EXCEPT ![s] = Idle]
         /\ Returns(s, [op |-> "send", error |-> "not_found"])
    ELSE /\ tool' = [tool EXCEPT ![s] =
                       [op |-> "relay", agent_id |-> tool[s].agent_id,
                        network_id |-> tool[s].network_id, to |-> tool[s].to,
                        content |-> tool[s].content, peers |-> rest,
                        posted |-> posted]]
         /\ UNCHANGED ret

\* One turn of the loop up to _query_peer_agents: the listing of the next
\* peer comes from the cache or from the peer; up says whether the
\* connection succeeds.
relay_query(m, s, up) ==
  /\ tool[s].op = "relay"
  /\ \E peer \in tool[s].peers :
       LET n      == tool[s].network_id
           rest   == tool[s].peers \ {peer}
           hit    == CacheHit(cache[s], peer.name, n, now)
           status == AgentsStatus(peer.url, AuthHeader(peer.shared_secret), up)
           agents == IF hit # {} THEN (CHOOSE e \in hit : TRUE).agents
                     ELSE IF status = 200 THEN AgentsListed(peer.url, n)
                     ELSE {}
       IN /\ cache' = [cache EXCEPT ![s] =
                         IF hit = {} /\ status = 200
                           THEN CachePut(@, peer.name, n, agents, now)
                           ELSE @]
          /\ IF tool[s].to \in agents
               THEN /\ tool' = [tool EXCEPT ![s] =
                                  [@ EXCEPT !.op = "relay_deliver", !.peers = rest]
                                    @@ [peer |-> peer]]
                    /\ UNCHANGED ret
               ELSE RelayNext(s, rest, tool[s].posted)
  /\ UNCHANGED <<now, storeVars, hook, http, histVars>>

\* The POST to <peer url>/api/deliver: a failed connection (status 0) moves
\* on to the next peer; otherwise thread h of the peer takes the request.
relay_post(m, s, h, up, max) ==
  /\ tool[s].op = "relay_deliver"
  /\ LET peer == tool[s].peer
     IN IF ~up \/ peer.url \notin Machines
          THEN /\ RelayNext(s, tool[s].peers, tool[s].posted \cup {peer.name})
               /\ UNCHANGED http
          ELSE /\ deliver_request(peer.url, h, AuthHeader(peer.shared_secret),
                                  tool[s].agent_id, tool[s].network_id,
                                  tool[s].to, tool[s].content, FALSE, max)
               /\ tool' = [tool EXCEPT ![s] =
                             [@ EXCEPT !.op = "relay_wait",
                                       !.posted = @ \cup {peer.name}]
                               @@ [thread |-> h]]
               /\ UNCHANGED ret
  /\ UNCHANGED <<now, storeVars, hook, cache, histVars>>

\* The peer has answered: 200 is "sent_to_peer", any other status is the
\* "rejected" error.
relay_return(m, s) ==
  /\ tool[s].op = "relay_wait"
  /\ LET peer == tool[s].peer
         resp == http[peer.url][tool[s].thread]
     IN /\ resp.op = "response"
        /\ IF resp.code = 200
             THEN Returns(s, [op |-> "send", status |-> "sent_to_peer",
                              peer |-> peer.name, to |-> tool[s].to])
             ELSE Returns(s, [op |-> "send", error |-> "peer_rejected",
                              peer |-> peer.name, code |-> resp.code])
  /\ tool' = [tool EXCEPT ![s] = Idle]
  /\ UNCHANGED <<now, storeVars, hook, http, cache, histVars>>

\* The deliver POST of a waiting send times out (urlopen timeout, status
\* 0) while the peer's thread has not answered; the loop moves on.
relay_timeout(m, s) ==
  /\ tool[s].op = "relay_wait"
  /\ Serving(tool[s].peer.url, tool[s].thread)
  /\ RelayNext(s, tool[s].peers, tool[s].posted)
  /\ UNCHANGED <<now, storeVars, hook, http, cache, histVars>>

(***************************************************************************)
(* The relay of broadcast, and list_agents                                 *)
(***************************************************************************)
\* The loop of broadcast over its peers moves on, or ends with the result.
BroadcastNext(s, rest, remote) ==
  IF rest = {}
    THEN /\ tool' = [tool EXCEPT ![s] = Idle]
         /\ Returns(s, BroadcastResult(tool[s].recipient_count,
                                       tool[s].skipped, remote))
    ELSE /\ tool' = [tool EXCEPT ![s] =
                       [op |-> "broadcast_relay", agent_id |-> tool[s].agent_id,
                        network_id |-> tool[s].network_id,
                        content |-> tool[s].content,
                        recipient_count |-> tool[s].recipient_count,
                        skipped |-> tool[s].skipped, remote_count |-> remote,
                        peers |-> rest]]
         /\ UNCHANGED ret

\* One turn of the loop: the POST to <peer url>/api/deliver with
\* is_broadcast; a failed connection (status 0) adds nothing to the count.
broadcast_post(m, s, h, up, max) ==
  /\ tool[s].op = "broadcast_relay"
  /\ \E peer \in tool[s].peers :
       IF ~up \/ peer.url \notin Machines
         THEN /\ BroadcastNext(s, tool[s].peers \ {peer}, tool[s].remote_count)
              /\ UNCHANGED http
         ELSE /\ deliver_request(peer.url, h, AuthHeader(peer.shared_secret),
                                 tool[s].agent_id, tool[s].network_id, NULL,
                                 tool[s].content, TRUE, max)
              /\ tool' = [tool EXCEPT ![s] =
                            [@ EXCEPT !.op = "broadcast_wait",
                                      !.peers = @ \ {peer}]
                              @@ [peer |-> peer, thread |-> h]]
              /\ UNCHANGED ret
  /\ UNCHANGED <<now, storeVars, hook, cache, histVars>>

\* The peer has answered: 200 adds its delivered_count to remote_count,
\* any other status adds nothing.
broadcast_collect(m, s) ==
  /\ tool[s].op = "broadcast_wait"
  /\ LET resp == http[tool[s].peer.url][tool[s].thread]
     IN /\ resp.op = "response"
        /\ BroadcastNext(s, tool[s].peers,
                         tool[s].remote_count
                           + (IF resp.code = 200 THEN resp.delivered_count ELSE 0))
  /\ UNCHANGED <<now, storeVars, hook, http, cache, histVars>>

\* The loop of list_agents over its peers moves on, or ends with the list.
ListNext(s, agents, rest) ==
  IF rest = {}
    THEN /\ tool' = [tool EXCEPT ![s] = Idle]
         /\ Returns(s, [op |-> "list", agents |-> agents,
                        count |-> Cardinality(agents)])
    ELSE /\ tool' = [tool EXCEPT ![s] =
                       [op |-> "list", agent_id |-> tool[s].agent_id,
                        network_id |-> tool[s].network_id,
                        agents |-> agents, peers |-> rest]]
         /\ UNCHANGED ret

\* list_agents up to its loop: the identity, the sessions of the caller's
\* network (one entry per row; UNIQUE(agent_id, network_id) keeps the
\* entries distinct), the approved peers.
list_agents(m, s) ==
  /\ tool[s] = Idle
  /\ HasIdentity(sessions[m], s)
  /\ LET me == get_identity(sessions[m], s)
         local == {[agent_id |-> r.agent_id, peer |-> NULL,
                    is_you |-> (r.agent_id = me.agent_id),
                    is_active |-> (now - r.last_seen) < AGENT_EXPIRY_SECONDS] :
                     r \in {x \in sessions[m] : x.network_id = me.network_id}}
     IN IF ApprovedPeers(peers[m]) = {}
          THEN /\ Returns(s, [op |-> "list", agents |-> local,
                              count |-> Cardinality(local)])
               /\ UNCHANGED tool
          ELSE /\ tool' = [tool EXCEPT ![s] =
                             [op |-> "list", agent_id |-> me.agent_id,
                              network_id |-> me.network_id, agents |-> local,
                              peers |-> ApprovedPeers(peers[m])]]
               /\ Returns(s, Idle)
  /\ UNCHANGED <<now, storeVars, hook, http, cache, histVars>>

\* One turn of the loop: _query_peer_agents of the next peer, from the
\* cache or from the peer; every agent it lists is appended as a remote
\* entry.
list_query(m, s, up) ==
  /\ tool[s].op = "list"
  /\ \E peer \in tool[s].peers :
       LET n      == tool[s].network_id
           hit    == CacheHit(cache[s], peer.name, n, now)
           status == AgentsStatus(peer.url, AuthHeader(peer.shared_secret), up)
           remote == IF hit # {} THEN (CHOOSE e \in hit : TRUE).agents
                     ELSE IF status = 200 THEN AgentsListed(peer.url, n)
                     ELSE {}
       IN /\ cache' = [cache EXCEPT ![s] =
                         IF hit = {} /\ status = 200
                           THEN CachePut(@, peer.name, n, remote, now)
                           ELSE @]
          /\ ListNext(s, tool[s].agents \cup
                           {[agent_id |-> a, peer |-> peer.name,
                             is_you |-> FALSE, is_active |-> TRUE] : a \in remote},
                      tool[s].peers \ {peer})
  /\ UNCHANGED <<now, storeVars, hook, http, histVars>>

(***************************************************************************)
(* Initial state: empty store, every process idle                          *)
(***************************************************************************)
Init ==
  /\ now = 0
  /\ sessions = [m \in Machines |-> {}]
  /\ messages = [m \in Machines |-> {}]
  /\ nextId = [m \in Machines |-> 1]
  /\ tool = [s \in Sids |-> Idle]
  /\ ret = [s \in Sids |-> Idle]
  /\ peers = [m \in Machines |-> {}]
  /\ hook = [s \in Sids |-> Idle]
  /\ http = [m \in Machines |-> [h \in Threads |-> Idle]]
  /\ race = [s \in Sids |-> NoRace]
  /\ handed = [m \in Machines |-> EmptyBag]
  /\ consent = [m \in Machines |-> {}]
  /\ cache = [s \in Sids |-> {}]
  /\ intact = [s \in Sids |-> {}]

(***************************************************************************)
(* SpecJoin: three sessions of machine L contend for two agent names of    *)
(* one network while the clock passes the expiry window.                   *)
(***************************************************************************)
SidsJoin   == {"s1", "s2", "s3"}
AgentsJoin == {"A", "B"}
NetsJoin   == {"n1"}
TimesJoin  == Instants(AGENT_EXPIRY_SECONDS + 1, MaxExpiriesJoin, MaxSecsJoin)

NextJoin ==
  \/ \E s \in SidsJoin, a \in AgentsJoin, n \in NetsJoin : join_call(s, a, n)
  \/ \E s \in SidsJoin : join_commit("L", s)
  \/ \E s \in SidsJoin : leave_network("L", s)
  \/ Tick(TimesJoin)

SpecJoin == Init /\ [][NextJoin]_vars

(***************************************************************************)
(* SpecFetch: on machine L session s1 (agent A) sends to                   *)
(* session s2 (agent B); the check_inbox tool and the PreToolUse hook of   *)
(* s2 fetch concurrently; the retention sweep runs; the clock passes       *)
(* single seconds and the retention period.                                *)
(***************************************************************************)
SidsFetch  == {"s1", "s2"}
AgentFetch == [s \in SidsFetch |-> IF s = "s1" THEN "A" ELSE "B"]
TimesFetch == Instants(MESSAGE_TTL_SECONDS + 1, 1, MaxSecsFetch)

NextFetch ==
  \/ \E s \in SidsFetch : join_call(s, AgentFetch[s], "n1")
  \/ \E s \in SidsFetch : join_commit("L", s)
  \/ leave_network("L", "s2")
  \/ send_message("L", "s1", "B", 1, MaxMsgsFetch)
  \/ send_insert("L", "s1")
  \/ check_inbox("L", "s2")
  \/ fetch_and_deliver("L", "s2")
  \/ hook_check_inbox("L", "s2")
  \/ hook_deliver("L", "s2")
  \/ session_start("L")
  \/ \E active \in BOOLEAN : stop_hook("L", "s2", active)
  \/ Tick(TimesFetch)

SpecFetch == Init /\ [][NextFetch]_vars

(***************************************************************************)
(* Claims about fetch (SpecFetch)                                          *)
(***************************************************************************)
\* C1: no message id is returned in the result batch of more than one
\* fetch call (check_inbox tool or PreToolUse hook), under any
\* interleaving of the fetchers of one recipient.
C1_HandedOutOnce ==
  \A m \in Machines : \A id \in BagToSet(handed[m]) : CopiesIn(id, handed[m]) <= 1

\* C5: a delivered message stays delivered and keeps its delivered-at, a
\* pending message has no delivered-at, and the step that delivers a
\* message writes the current time.
C5_Step ==
  \A m \in Machines : \A r \in messages[m] : \A r2 \in messages'[m] :
    r2.id = r.id =>
      /\ r.status = "delivered" =>
           r2.status = "delivered" /\ r2.delivered_at = r.delivered_at
      /\ r2.status = "pending" => r2.delivered_at = NULL
      /\ (r.status = "pending" /\ r2.status = "delivered") => r2.delivered_at = now

C5_DeliveredOnce == [][C5_Step]_vars

\* C5 witness: a message was delivered at an earlier second and a second
\* fetcher, holding the same row in its batch, has run its UPDATE since.
C5_Witness ==
  \E r \in messages["L"] :
    /\ r.status = "delivered" /\ r.delivered_at < now
    /\ CopiesIn(r.id, handed["L"]) >= 2

(***************************************************************************)
(* SpecCap: on machine L the sessions s1 and s2 hold the agent name A in   *)
(* the networks n1 and n2, s3 and s4 hold B there; both A sessions send    *)
(* and broadcast to B.                                                     *)
(***************************************************************************)
SidsCap    == {"s1", "s2", "s3", "s4"}
SendersCap == {"s1", "s2"}
AgentCap   == [s \in SidsCap |-> IF s \in SendersCap THEN "A" ELSE "B"]
NetCap     == [s \in SidsCap |-> IF s \in {"s1", "s3"} THEN "n1" ELSE "n2"]

NextCap ==
  \/ \E s \in SidsCap :
       ~HasIdentity(sessions["L"], s) /\ join_call(s, AgentCap[s], NetCap[s])
  \/ \E s \in SidsCap : join_commit("L", s)
  \/ \E s \in SendersCap : send_message("L", s, "B", 1, MaxMsgsCap)
  \/ \E s \in SendersCap : send_insert("L", s)
  \/ \E s \in SendersCap : broadcast("L", s, 1, MaxMsgsCap)
  \/ \E s \in SendersCap : broadcast_commit("L", s)

SpecCap == Init /\ [][NextCap]_vars

(***************************************************************************)
(* Claims about the unread cap (SpecCap)                                   *)
(***************************************************************************)
\* C2: for every sender and recipient, the pending messages written by
\* local send and broadcast calls from the sender to the recipient number
\* at most UNREAD_CAP, also when calls of the same sender identity overlap.
C2_UnreadCapHolds ==
  \A from, to \in {"A", "B"} : UnreadCount(messages["L"], from, to) <= UNREAD_CAP

(***************************************************************************)
(* Claims about join and leave (SpecJoin)                                  *)
(***************************************************************************)
Holds(m, s, a, n) ==
  \E r \in sessions[m] : r.session_id = s /\ r.agent_id = a /\ r.network_id = n

\* C3: in every reachable state at most one session row holds a given
\* (agent, network) pair and each session token has at most one row.
C3_OneHolderPerIdentity ==
  \A m \in Machines : \A r1, r2 \in sessions[m] :
    /\ (r1.agent_id = r2.agent_id /\ r1.network_id = r2.network_id) => r1 = r2
    /\ r1.session_id = r2.session_id => r1 = r2

\* C3 witness: a session has taken a stale holder's name over and the
\* evicted session has joined again under the other name.
C3_Witness ==
  \E s1, s2 \in SidsJoin :
    /\ s1 # s2
    /\ ret[s1].op = "join" /\ ret[s1].status = "joined" /\ race[s1].stale
    /\ race[s1].holder = s2
    /\ ret[s2].op = "join" /\ ret[s2].status = "joined"
    /\ Cardinality(sessions["L"]) >= 2

\* Two sessions whose join calls for the same (agent, network) overlapped
\* and have both returned, neither of them having met a stale holder.
Raced(s1, s2) ==
  /\ s1 # s2
  /\ tool[s1] = Idle /\ tool[s2] = Idle
  /\ ret[s1].op = "join" /\ ret[s2].op = "join"
  /\ s2 \in race[s1].with /\ s1 \in race[s2].with
  /\ ~race[s1].stale /\ ~race[s2].stale

OneJoined(s1, s2) ==
  /\ ret[s1].status = "joined"
  /\ ret[s2].status = "taken"
  /\ ~Holds("L", s2, ret[s2].agent_id, ret[s2].network_id)

\* C4 as stated: two sessions race for the same (agent, network), any
\* existing holder being fresh; exactly one join returns joined, the other
\* returns already taken and holds no row for its claim.
C4_ExactlyOneWins ==
  \A s1, s2 \in SidsJoin :
    Raced(s1, s2) => OneJoined(s1, s2) \/ OneJoined(s2, s1)

\* C4 amended: of two racing joins that meet no stale holder, the one that
\* commits while no other session holds the identity returns joined and the
\* one that commits while its rival holds it returns already taken and
\* holds no row for its claim; a join that meets a fresh holder other than
\* its rival is refused as well, so a third fresh holder defeats both.
C4_ExactlyOneWinsUnlessHeld ==
  \A s1, s2 \in SidsJoin :
    Raced(s1, s2) =>
      /\ (race[s1].holder = "none" /\ race[s2].holder = s1) => OneJoined(s1, s2)
      /\ race[s1].holder \notin {"none", s2} =>
           /\ ret[s1].status = "taken"
           /\ ~Holds("L", s1, ret[s1].agent_id, ret[s1].network_id)

\* C4 witness: a race for a free identity has ended with one winner.
C4_Witness ==
  \E s1, s2 \in SidsJoin :
    /\ Raced(s1, s2)
    /\ race[s1].holder = "none" /\ race[s2].holder = s1
    /\ OneJoined(s1, s2)

(***************************************************************************)
(* SpecPeer: the pairing handshake between L and R.  The operator of L     *)
(* (tool process s1) pairs with R under either R's machine name or a       *)
(* friendly name; the operator of R (tool process r1) approves or removes; *)
(* any client may post to the two pairing endpoints, which ask for no      *)
(* credential; a connection may fail.                                      *)
(***************************************************************************)
NamesPeer   == {"R", "laptop"}
SecretsPeer == {"k"}
UrlsPeer    == {"R"} \cup Strangers
OperatorsPeer == {"s1", "r1"}
KnownPeer == [s \in OperatorsPeer |-> IF s = "s1" THEN NamesPeer ELSE {"L"}]

NextPeer ==
  \/ \E url \in UrlsPeer, name \in NamesPeer, k \in SecretsPeer :
       pair_with("L", "s1", url, name, k)
  \/ pair_upsert("L", "s1")
  \/ \E up \in BOOLEAN : pair_notify("L", "s1", up, MaxMsgsPeer)
  \/ \E s \in OperatorsPeer : \E name \in KnownPeer[s] :
       approve_peer(MachineOf(s), s, name)
  \/ \E s \in OperatorsPeer : approve_flip(MachineOf(s), s)
  \/ \E s \in OperatorsPeer : \E up \in BOOLEAN :
       approve_notify(MachineOf(s), s, up, MaxMsgsPeer)
  \/ \E s \in OperatorsPeer : \E name \in KnownPeer[s] :
       remove_peer(MachineOf(s), s, name)
  \/ \E k \in SecretsPeer : post_pair_request("R", "L", "X", k, MaxMsgsPeer)
  \/ \E s \in OperatorsPeer : \E name \in KnownPeer[s] :
       post_pair_accept(MachineOf(s), name, MaxMsgsPeer)

SpecPeer == Init /\ [][NextPeer]_vars

IsMutual(r) == r.status = "approved" /\ r.direction = "mutual"

\* C6: a record that a pairing request created is approved/mutual only if
\* the operator of that machine has approved it with approve_peer,
\* whatever the initiator or a caller of /api/pair/accept does.
C6_ApprovedOnlyWithConsent ==
  \A m \in Machines : \A r \in peers[m] :
    (IsMutual(r) /\ <<r.name, "inbound">> \in consent[m])
      => <<r.name, "approved">> \in consent[m]

\* C8: when approve_peer returns and the remote machine does not hold an
\* approved/mutual record for this machine, the local record is pending.
C8_Step ==
  \A s \in OperatorsPeer :
    LET m   == MachineOf(s)
        url == tool[s].url
    IN (tool[s].op = "approve_notify" /\ tool'[s] = Idle)
         => (~(/\ url \in Machines
               /\ \E r \in PeerNamed(peers'[url], get_machine_name(m)) : IsMutual(r))
               => \A r \in PeerNamed(peers'[m], tool[s].peer_id) :
                    r.status = "pending" /\ ~IsMutual(r))

C8_NoOneSidedTrust == [][C8_Step]_vars

\* C9: every peer record is pending/outbound, pending/inbound or
\* approved/mutual, in every reachable state of the peers tables.
C9_ThreeCombinations ==
  \A m \in Machines : \A r \in peers[m] :
    <<r.status, r.direction>> \in
      {<<"pending", "outbound">>, <<"pending", "inbound">>, <<"approved", "mutual">>}

\* approve_peer on R has rolled back while L holds an approved record and
\* a pending/outbound one.
C9_Witness ==
  /\ ret["r1"] = [op |-> "approve", error |-> "unreachable", peer |-> "L",
                  status_code |-> 0]
  /\ \E r \in peers["R"] : r.status = "pending" /\ r.direction = "inbound"
  /\ \E r \in peers["L"] : IsMutual(r)
  /\ \E r \in peers["L"] : r.status = "pending" /\ r.direction = "outbound"

\* C10: L has paired with R and its request was received (L's record
\* pending/outbound, R's record for L created by the request and flipped
\* by R's approve_peer); when approve_peer on R then returns "approved",
\* L's record for R and R's record for L are both approved/mutual.
C10_Step ==
  (/\ tool["r1"].op = "approve_notify"
   /\ tool["r1"].peer_id = "L"
   /\ tool["r1"].url = "L"
   /\ tool'["r1"] = Idle
   /\ \E code \in {200, 400, 404} :
        ret'["r1"] = [op |-> "approve", status |-> "approved", peer |-> "L",
                      url |-> "L", status_code |-> code]
   /\ tool["s1"] = Idle
   /\ \E name \in NamesPeer :
        ret["s1"] = [op |-> "pair", status |-> "pending", peer |-> name,
                     url |-> "R", status_code |-> 200]
   /\ \E r \in PeerNamed(peers["L"], ret["s1"].peer) :
        r.status = "pending" /\ r.direction = "outbound" /\ r.url = "R"
   /\ <<"L", "inbound">> \in consent["R"]
   /\ \E r \in PeerNamed(peers["R"], "L") : IsMutual(r) /\ r.url = "L")
    => /\ \E r \in PeerNamed(peers'["L"], ret["s1"].peer) : IsMutual(r)
       /\ \E r \in PeerNamed(peers'["R"], "L") : IsMutual(r)

C10_FullPairing == [][C10_Step]_vars

(***************************************************************************)
(* SpecAuth: the HTTP server of R.  A session joins; pairing requests      *)
(* arrive with either of two secrets and are accepted or removed; requests *)
(* to /api/deliver and /api/agents arrive with no header or either secret. *)
(***************************************************************************)
SecretsAuth == {"k1", "k2"}
HeadersAuth == {NoHeader} \cup SecretsAuth

NextAuth ==
  \/ ~HasIdentity(sessions["R"], "r1") /\ join_call("r1", "B", "n1")
  \/ join_commit("R", "r1")
  \/ \E k \in SecretsAuth : post_pair_request("R", "L", "L", k, MaxMsgsAuth)
  \/ post_pair_accept("R", "L", MaxMsgsAuth)
  \/ remove_peer("R", "r1", "L")
  \/ \E hd \in HeadersAuth, to \in {"B", NULL}, bc \in BOOLEAN :
       handle_deliver("R", "h1", hd, "A", "n1", to, 1, bc, MaxMsgsAuth)
  \/ deliver_insert("R", "h1")
  \/ \E hd \in HeadersAuth : handle_agents("R", "h1", hd, "n1")

SpecAuth == Init /\ [][NextAuth]_vars

Authorized(P, header) ==
  /\ header # NoHeader
  /\ \E r \in P : r.shared_secret = header /\ IsMutual(r)

\* C7: a request to /api/deliver or /api/agents is served only if its
\* bearer token is the secret of a record that is approved/mutual at that
\* moment; any other request is answered 401, inserts no message and gets
\* no agent listing.
C7_Step ==
  \A m \in Machines, h \in Threads :
    (~Serving(m, h) /\ http'[m][h] # http[m][h])
      => \/ Authorized(peers[m], http'[m][h].header)
         \/ /\ http'[m][h].op = "response"
            /\ http'[m][h].code = 401
            /\ messages' = messages

C7_OnlyApprovedPeersServed == [][C7_Step]_vars

\* A request carrying the secret of a pending record was answered 401,
\* with a session joined that a delivery could have reached.
C7_Witness ==
  /\ http["R"]["h1"].op = "response"
  /\ http["R"]["h1"].code = 401
  /\ http["R"]["h1"].header # NoHeader
  /\ \E r \in peers["R"] :
       r.shared_secret = http["R"]["h1"].header /\ r.status = "pending"
  /\ sessions["R"] # {}

(***************************************************************************)
(* SpecRelay: agent A (session s1) on L sends to agent B, who is joined    *)
(* only on R (session r1).  The operators pair L with R, approve on R and  *)
(* remove on either side; a connection may fail; the clock reaches the     *)
(* lifetime of a cached agent listing.                                     *)
(***************************************************************************)
TimesRelay == Instants(AGENT_EXPIRY_SECONDS, MaxCacheRelay, 0)

NextRelay ==
  \/ ~HasIdentity(sessions["L"], "s1") /\ join_call("s1", "A", "n1")
  \/ ~HasIdentity(sessions["R"], "r1") /\ join_call("r1", "B", "n1")
  \/ join_commit("L", "s1")
  \/ join_commit("R", "r1")
  \/ pair_with("L", "s1", "R", "R", "k")
  \/ pair_upsert("L", "s1")
  \/ pair_notify("L", "s1", TRUE, MaxMsgsRelay)
  \/ approve_peer("R", "r1", "L")
  \/ approve_flip("R", "r1")
  \/ approve_notify("R", "r1", TRUE, MaxMsgsRelay)
  \/ remove_peer("L", "s1", "R")
  \/ remove_peer("R", "r1", "L")
  \/ send_message("L", "s1", "B", 1, MaxMsgsRelay)
  \/ \E up \in BOOLEAN : relay_query("L", "s1", up)
  \/ \E up \in BOOLEAN : relay_post("L", "s1", "h2", up, MaxMsgsRelay)
  \/ deliver_insert("R", "h2")
  \/ relay_return("L", "s1")
  \/ Tick(TimesRelay)

SpecRelay == Init /\ [][NextRelay]_vars

\* C11: a send of A on L to B, who is joined only on R, that is called
\* while the pairing of L and R is not intact and returns while a record
\* of the pairing is removed on either side, returns "not found".
C11_Step ==
  (/\ ret'["s1"] # ret["s1"]
   /\ ret'["s1"].op = "send"
   /\ RowsOfAgent(sessions["L"], "B", "n1") = {}
   /\ RowsOfAgent(sessions["R"], "B", "n1") # {}
   /\ "R" \notin intact'["s1"]
   /\ (PeerNamed(peers["L"], "R") = {} \/ PeerNamed(peers["R"], "L") = {}))
    => ret'["s1"] = [op |-> "send", error |-> "not_found"]

C11_RemovedPeerNotFound == [][C11_Step]_vars

(***************************************************************************)
(* SpecRate: agent A (session s1) sends to agent B (session s2) on L,      *)
(* content of the largest size or one more; the PreToolUse hook of B       *)
(* drains B's inbox; the clock reaches the end of the rate window.         *)
(***************************************************************************)
SizesRate == {MAX_CONTENT, MAX_CONTENT + 1}
TimesRate == Instants(RATE_WINDOW, 1, 0)

NextRate ==
  \/ \E s \in SidsFetch :
       ~HasIdentity(sessions["L"], s) /\ join_call(s, AgentFetch[s], "n1")
  \/ \E s \in SidsFetch : join_commit("L", s)
  \/ \E c \in SizesRate : send_message("L", "s1", "B", c, MaxMsgsRate)
  \/ send_insert("L", "s1")
  \/ hook_check_inbox("L", "s2")
  \/ hook_deliver("L", "s2")
  \/ Tick(TimesRate)

SpecRate == Init /\ [][NextRate]_vars

(***************************************************************************)
(* Claims about the caps and the size check of send (SpecRate)             *)
(***************************************************************************)
\* The rows from A to B, those that are pending, and those created in the
\* trailing 60 seconds.
FromAToB   == {r \in messages["L"] : r.sender_id = "A" /\ r.recipient_id = "B"}
PendingAToB == {r \in FromAToB : r.status = "pending"}
RecentAToB == {r \in FromAToB : now - r.created_at < 60}

\* A's session makes a call of send_message to B, who is joined.
SendCalled ==
  /\ tool["s1"] = Idle
  /\ HasIdentity(sessions["L"], "s1")
  /\ RowsOfAgent(sessions["L"], "B", "n1") # {}
  /\ \/ tool'["s1"].op = "send"
     \/ ret'["s1"] # ret["s1"] /\ ret'["s1"].op = "send"

SendRejected(error) ==
  /\ tool'["s1"] = Idle
  /\ messages' = messages
  /\ ret'["s1"] = [op |-> "send", error |-> error]

\* Content over the maximum was turned away.
SendOversized ==
  /\ tool'["s1"] = Idle
  /\ messages' = messages
  /\ ret'["s1"] = [op |-> "send", error |-> "too_large", size |-> MAX_CONTENT + 1]

\* The call passed every check and goes on to its INSERT.
SendAccepted == tool'["s1"].op = "send" /\ tool'["s1"].to = "B"

\* The INSERT of an accepted send adds exactly one pending row from A to B.
SendInsertsOne ==
  (tool["s1"].op = "send" /\ tool'["s1"] = Idle)
    => /\ \E r \in messages'["L"] \ messages["L"] :
            /\ messages'["L"] = messages["L"] \cup {r}
            /\ r.sender_id = "A" /\ r.recipient_id = "B" /\ r.status = "pending"
       /\ ret'["s1"].op = "send" /\ ret'["s1"].status = "sent"

\* C12 as stated: with 5 pending from A to B a send is rejected "inbox
\* full" and inserts nothing; once B has fetched them (none pending, some
\* delivered) the next send is accepted and inserts one pending row.
C12_Step ==
  /\ (SendCalled /\ Cardinality(PendingAToB) = UNREAD_CAP)
       => (SendRejected("inbox_full") \/ SendOversized)
  /\ (SendCalled /\ PendingAToB = {} /\ FromAToB # {})
       => (SendAccepted \/ SendOversized)
  /\ SendInsertsOne

C12_DrainedThenSent == [][C12_Step]_vars

\* C12, amended: the send after the drain is accepted provided fewer than
\* 10 messages from A to B were created in the trailing 60 seconds, and is
\* rejected "rate limited" otherwise.
C12_StepUnderRate ==
  /\ (SendCalled /\ Cardinality(PendingAToB) = UNREAD_CAP)
       => (SendRejected("inbox_full") \/ SendOversized)
  /\ (SendCalled /\ PendingAToB = {} /\ FromAToB # {})
       => IF Cardinality(RecentAToB) < RATE_LIMIT
            THEN SendAccepted \/ SendOversized
            ELSE SendRejected("rate_limited") \/ SendOversized
  /\ SendInsertsOne

C12_DrainedThenSentUnderRate == [][C12_StepUnderRate]_vars

\* Five messages were delivered to B and a sixth, sent after, is pending.
C12_Witness ==
  /\ Cardinality(FromAToB \ PendingAToB) = UNREAD_CAP
  /\ Cardinality(PendingAToB) = 1
  /\ ret["s1"] = [op |-> "send", status |-> "sent", message_id |-> 6, to |-> "B"]

\* C13 as stated: with 10 messages from A to B created in the trailing 60
\* seconds a send is rejected "rate limited" and inserts nothing; once 60
\* seconds have passed since they were created a send is accepted.
C13_Step ==
  /\ (SendCalled /\ Cardinality(RecentAToB) >= RATE_LIMIT)
       => (SendRejected("rate_limited") \/ SendOversized)
  /\ (SendCalled /\ Cardinality(FromAToB) >= RATE_LIMIT /\ RecentAToB = {})
       => (SendAccepted \/ SendOversized)

C13_RateCap == [][C13_Step]_vars

\* C13, amended: the rejection is "inbox full" when 5 of A's messages to B
\* are pending and "rate limited" otherwise; after the window the send is
\* accepted provided fewer than 5 are pending.
C13_StepUnderUnread ==
  /\ (SendCalled /\ Cardinality(RecentAToB) >= RATE_LIMIT)
       => \/ SendOversized
          \/ IF Cardinality(PendingAToB) >= UNREAD_CAP
               THEN SendRejected("inbox_full")
               ELSE SendRejected("rate_limited")
  /\ (SendCalled /\ Cardinality(FromAToB) >= RATE_LIMIT /\ RecentAToB = {}
        /\ Cardinality(PendingAToB) < UNREAD_CAP)
       => (SendAccepted \/ SendOversized)
  /\ SendInsertsOne

C13_RateCapUnderUnread == [][C13_StepUnderUnread]_vars

\* Ten messages were created at one instant and an eleventh was sent one
\* window later.
C13_Witness ==
  /\ Cardinality({r \in FromAToB : r.created_at = 0}) = RATE_LIMIT
  /\ \E r \in PendingAToB : r.created_at = RATE_WINDOW /\ r.id = RATE_LIMIT + 1

\* C19: a send of A to B, who is joined, is rejected "too large" only for
\* content over 8000; content of 8001 never reaches the INSERT, and content
\* of 8000 under both caps is accepted and inserted.
C19_Step ==
  /\ SendCalled =>
       /\ (\E c \in SizesRate :
             ret'["s1"] = [op |-> "send", error |-> "too_large", size |-> c])
            => SendOversized
       /\ SendAccepted => tool'["s1"].content <= 8000
       /\ (Cardinality(PendingAToB) < UNREAD_CAP /\ Cardinality(RecentAToB) < RATE_LIMIT)
            => (SendAccepted \/ SendOversized)
  /\ SendInsertsOne
  /\ \A r \in messages'["L"] : r.content <= 8000

C19_SizeBoundary == [][C19_Step]_vars

\* A message of exactly 8000 is stored and one of 8001 was turned away.
C19_Witness ==
  /\ \E r \in PendingAToB : r.content = 8000
  /\ ret["s1"] = [op |-> "send", error |-> "too_large", size |-> 8001]

(***************************************************************************)
(* SpecTakeover: two sessions on L join and leave under the names A and B  *)
(* while the clock passes just short of, exactly and just over the expiry  *)
(* limit.                                                                  *)
(***************************************************************************)
AgentsTakeover == {"A", "B"}
TimesTakeover  == Instants(AGENT_EXPIRY_SECONDS, MaxExpiriesTakeover, MaxSecsTakeover)

NextTakeover ==
  \/ \E s \in SidsFetch, a \in AgentsTakeover : join_call(s, a, "n1")
  \/ \E s \in SidsFetch : join_commit("L", s)
  \/ \E s \in SidsFetch : leave_network("L", s)
  \/ Tick(TimesTakeover)

SpecTakeover == Init /\ [][NextTakeover]_vars

\* C14: a join that finds the identity held by another session idle for
\* more than 30 seconds succeeds, deletes that session's row and leaves the
\* joiner as the only holder; no join deletes the row of another session
\* idle for 30 seconds or less.
C14_Step ==
  \A s \in SidsFetch :
    (tool[s].op = "join" /\ tool'[s] = Idle) =>
      LET a == tool[s].agent_id
          n == tool[s].network_id
          others == {r \in sessions["L"] : r.session_id # s}
      IN /\ \A r \in others :
              (r.agent_id = a /\ r.network_id = n /\ now - r.last_seen > 30)
                => /\ ret'[s] = [op |-> "join", agent_id |-> a, network_id |-> n,
                                 status |-> "joined"]
                   /\ RowsOfSession(sessions'["L"], r.session_id) = {}
                   /\ \A x \in RowsOfAgent(sessions'["L"], a, n) : x.session_id = s
                   /\ RowsOfAgent(sessions'["L"], a, n) # {}
         /\ \A r \in others : now - r.last_seen <= 30 => r \in sessions'["L"]

C14_Takeover == [][C14_Step]_vars

\* Session s2 has taken A over from s1, whose row was stale and is gone.
C14_Witness ==
  /\ ret["s2"] = [op |-> "join", agent_id |-> "A", network_id |-> "n1",
                  status |-> "joined"]
  /\ race["s2"].holder = "s1" /\ race["s2"].stale
  /\ RowsOfSession(sessions["L"], "s1") = {}
  /\ \E r \in sessions["L"] : r.session_id = "s2" /\ r.agent_id = "A"

(***************************************************************************)
(* SpecEvict: on machine L session s1 (agent A) sends to agent B, a name   *)
(* that sessions s2 and s3 both claim; each fetches through its hook, any  *)
(* of the three leaves, and the clock passes the expiry limit.             *)
(***************************************************************************)
SidsEvict  == {"s1", "s2", "s3"}
AgentEvict == [s \in SidsEvict |-> IF s = "s1" THEN "A" ELSE "B"]
TimesEvict == Instants(AGENT_EXPIRY_SECONDS + 1, 1, 0)

NextEvict ==
  \/ \E s \in SidsEvict : join_call(s, AgentEvict[s], "n1")
  \/ \E s \in SidsEvict : join_commit("L", s)
  \/ \E s \in SidsEvict : leave_network("L", s)
  \/ send_message("L", "s1", "B", 1, MaxMsgsEvict)
  \/ send_insert("L", "s1")
  \/ \E s \in {"s2", "s3"} : hook_check_inbox("L", s)
  \/ \E s \in {"s2", "s3"} : hook_deliver("L", s)
  \/ Tick(TimesEvict)

SpecEvict == Init /\ [][NextEvict]_vars

\* A join of session s completes in this step.
JoinCompletes(s) == tool[s].op = "join" /\ tool'[s] = Idle

\* Session s, idle in its tool, holds an identity before this step and none
\* after it although no join completed: s has left.
LeaveCompletes(s) ==
  /\ tool[s] = Idle
  /\ RowsOfSession(sessions["L"], s) # {}
  /\ RowsOfSession(sessions'["L"], s) = {}
  /\ \A x \in SidsEvict : ~JoinCompletes(x)

\* C15: a step in which a join (with or without takeover) or a leave
\* completes changes no message row, so the pending messages addressed to an
\* evicted agent are still pending under that name for the new holder.
C15_Step ==
  \A s \in SidsEvict :
    (JoinCompletes(s) \/ LeaveCompletes(s)) =>
      /\ messages' = messages
      /\ nextId' = nextId
      /\ peers' = peers
      /\ \A a \in {"A", "B"} :
           {r \in messages'["L"] : r.recipient_id = a /\ r.status = "pending"}
             = {r \in messages["L"] : r.recipient_id = a /\ r.status = "pending"}

C15_JoinLeaveKeepMessages == [][C15_Step]_vars

\* Session s3 has taken B over from the stale s2, whose row is gone, while a
\* message sent to B before the takeover is still pending.
C15_Witness ==
  /\ ret["s3"] = [op |-> "join", agent_id |-> "B", network_id |-> "n1",
                  status |-> "joined"]
  /\ race["s3"].holder = "s2" /\ race["s3"].stale
  /\ RowsOfSession(sessions["L"], "s2") = {}
  /\ \E r \in messages["L"] :
       /\ r.recipient_id = "B" /\ r.status = "pending"
       /\ r.created_at < now

(***************************************************************************)
(* SpecSweep: on machine L session s1 (agent A) sends to session s2        *)
(* (agent B), whose hook fetches; the retention sweep runs while the clock *)
(* passes just short of, exactly and just over the retention period.       *)
(***************************************************************************)
TimesSweep == Instants(MESSAGE_TTL_SECONDS, 1, 1)

NextSweep ==
  \/ \E s \in SidsFetch : join_call(s, AgentFetch[s], "n1")
  \/ \E s \in SidsFetch : join_commit("L", s)
  \/ send_message("L", "s1", "B", 1, MaxMsgsSweep)
  \/ send_insert("L", "s1")
  \/ hook_check_inbox("L", "s2")
  \/ hook_deliver("L", "s2")
  \/ session_start("L")
  \/ Tick(TimesSweep)

SpecSweep == Init /\ [][NextSweep]_vars

\* The rows of L's store whose id is no longer in the store after the step.
Deleted == {r \in messages["L"] : \A x \in messages'["L"] : x.id # r.id}

\* The delivered rows of L's store delivered more than 7 days ago.
Expired ==
  {r \in messages["L"] :
     r.status = "delivered" /\ now - r.delivered_at > 7 * 24 * 3600}

\* C16: a step that deletes message rows deletes exactly the delivered rows
\* whose delivered-at is more than 7 days old; no step deletes a pending
\* row, whatever its age, or a delivered row younger than that.
C16_Step ==
  /\ Deleted # {} => Deleted = Expired
  /\ \A r \in Deleted : r.status # "pending"

C16_SweepExact == [][C16_Step]_vars

\* The sweep has run past the retention period: of three messages the one
\* delivered over 7 days ago is gone, while the one delivered exactly 7 days
\* ago and the one pending since the start are kept.
C16_Witness ==
  /\ now = MESSAGE_TTL_SECONDS + 1
  /\ nextId["L"] = 4
  /\ Cardinality(messages["L"]) = 2
  /\ \E r \in messages["L"] : r.status = "delivered" /\ r.delivered_at = 1
  /\ \E r \in messages["L"] : r.status = "pending" /\ r.created_at = 0

(***************************************************************************)
(* wait_for_message                                                        *)
(***************************************************************************)
\* A wait that takes the requested timeout as it is.
UncappedTimeout(timeout) == timeout

\* if timeout > 90: timeout = 90
EffectiveTimeout(timeout) == IF timeout > MAX_WAIT THEN MAX_WAIT ELSE timeout

\* A wait that keeps its connection when the poll is over.
LeaveOpen(db) == db

\* finally: db.close()
Close(db) == "closed"

\* min(2, max(0, remaining))
Nap(remaining) ==
  LET r == IF remaining > 0 THEN remaining ELSE 0
  IN IF r < POLL_INTERVAL THEN r ELSE POLL_INTERVAL

\* wait_for_message up to the loop: the timeout is capped, the identity
\* resolved, the deadline fixed.  The model starts no wait that could last
\* beyond its clock's last instant max.
wait_for_message(m, s, timeout, max) ==
  /\ tool[s] = Idle
  /\ HasIdentity(sessions[m], s)
  /\ now + EffectiveTimeout(timeout) + POLL_INTERVAL <= max
  /\ tool' = [tool EXCEPT ![s] =
                [op |-> "wait", agent_id |-> get_identity(sessions[m], s).agent_id,
                 timeout |-> timeout, waited |-> EffectiveTimeout(timeout),
                 called |-> now, deadline |-> now + EffectiveTimeout(timeout),
                 pc |-> "poll", db |-> "closed", wake |-> now]]
  /\ Returns(s, Idle)
  /\ UNCHANGED <<now, storeVars, hook, http, cache, histVars>>

\* Top of the loop: _get_db() and the count of pending messages; with a
\* message pending the call goes on into _fetch_and_deliver.
wait_poll(m, s) ==
  /\ tool[s].op = "wait" /\ tool[s].pc = "poll"
  /\ IF Pending(messages[m], tool[s].agent_id) # {}
       THEN tool' = [tool EXCEPT ![s] =
                       [op |-> "wait_fetch", agent_id |-> tool[s].agent_id]]
       ELSE tool' = [tool EXCEPT ![s].pc = "open", ![s].db = "open"]
  /\ UNCHANGED <<now, storeVars, ret, hook, http, cache, histVars>>

\* _fetch_and_deliver called by wait_for_message, up to its SELECT.
wait_select(m, s) ==
  /\ tool[s].op = "wait_fetch"
  /\ \E q \in Batches(messages[m], tool[s].agent_id, FETCH_LIMIT) :
       IF q = <<>>
         THEN /\ Returns(s, [op |-> "fetch", messages |-> <<>>, remaining |-> 0])
              /\ tool' = [tool EXCEPT ![s] = Idle]
         ELSE /\ tool' = [tool EXCEPT ![s] =
                            [op |-> "fetch", agent_id |-> tool[s].agent_id,
                             rows |-> q]]
              /\ UNCHANGED ret
  /\ UNCHANGED <<now, storeVars, hook, http, cache, histVars>>

\* The miss: the heartbeat UPDATE, db.close(), then the deadline test; past
\* the deadline the timeout result, else asyncio.sleep up to the deadline.
wait_heartbeat(m, s) ==
  /\ tool[s].op = "wait" /\ tool[s].pc = "open"
  /\ sessions' = [sessions EXCEPT ![m] = Touch(@, s, now)]
  /\ IF now >= tool[s].deadline
       THEN /\ Returns(s, [op |-> "wait", status |-> "timeout",
                           messages |-> <<>>, waited |-> tool[s].waited])
            /\ tool' = [tool EXCEPT ![s] = Idle]
       ELSE /\ tool' = [tool EXCEPT ![s].pc = "sleep",
                                    ![s].db = Close(tool[s].db),
                                    ![s].wake = now + Nap(tool[s].deadline - now)]
            /\ UNCHANGED ret
  /\ UNCHANGED <<now, messages, nextId, peers, hook, http, cache, histVars>>

\* asyncio.sleep returns, no earlier than asked.
wait_wake(m, s) ==
  /\ tool[s].op = "wait" /\ tool[s].pc = "sleep"
  /\ now >= tool[s].wake
  /\ tool' = [tool EXCEPT ![s].pc = "poll"]
  /\ UNCHANGED <<now, storeVars, ret, hook, http, cache, histVars>>

\* A second passes, up to instant max.  A poll takes no time, and a sleeping
\* wait is resumed at most late seconds after the time it asked for.
Second(max, late) ==
  /\ now < max
  /\ \A s \in Sids :
       tool[s].op = "wait" =>
         tool[s].pc = "sleep" /\ now + 1 <= tool[s].wake + late
  /\ \A s \in Sids : tool[s].op # "wait_fetch"
  /\ now' = now + 1
  /\ UNCHANGED <<storeVars, procVars, histVars>>

(***************************************************************************)
(* SpecWait: session s2 (agent B) on machine L waits, with timeouts at,    *)
(* under and over the cap, while nobody sends to it and the clock passes   *)
(* second by second.  The event loop runs the steps of a wait in progress, *)
(* and the clock does not stop.                                            *)
(***************************************************************************)
TimeoutsWait == {0, 1, 3, MAX_WAIT + 5}

WaitSteps(s) ==
  \/ wait_poll("L", s)
  \/ wait_heartbeat("L", s)
  \/ wait_wake("L", s)

NextWait ==
  \/ join_call("s2", "B", "n1")
  \/ join_commit("L", "s2")
  \/ \E timeout \in TimeoutsWait : wait_for_message("L", "s2", timeout, MaxClockWait)
  \/ wait_poll("L", "s2")
  \/ wait_heartbeat("L", "s2")
  \/ wait_wake("L", "s2")
  \/ Second(MaxClockWait, MaxLateness)

SpecWait ==
  /\ Init /\ [][NextWait]_vars
  /\ WF_vars(WaitSteps("s2"))
  /\ WF_vars(Second(MaxClockWait, MaxLateness))

\* The timeout a wait called with the requested one observes.
Granted(timeout) == IF timeout > 90 THEN 90 ELSE timeout

Waiting(s) == tool[s].op = "wait"

\* A wait in progress is within timeout plus one poll interval of its call.
C17_Bound ==
  Waiting("s2") =>
    now <= tool["s2"].called + Granted(tool["s2"].timeout) + 2

\* A wait that ends with nothing pending for the caller returns the timeout
\* result, within that bound and not before the timeout has passed.
C17_Step ==
  (Waiting("s2") /\ ~Waiting("s2")'
     /\ Pending(messages["L"], tool["s2"].agent_id) = {}) =>
    /\ ret'["s2"] = [op |-> "wait", status |-> "timeout", messages |-> <<>>,
                     waited |-> Granted(tool["s2"].timeout)]
    /\ now <= tool["s2"].called + Granted(tool["s2"].timeout) + 2
    /\ now >= tool["s2"].called + Granted(tool["s2"].timeout)

\* C17: wait always terminates: with no message pending for the caller it
\* returns the timeout result no later than the timeout, capped at 90, plus
\* one poll interval of 2 seconds after it was called.
C17_WaitTerminates ==
  /\ []C17_Bound
  /\ [][C17_Step]_vars
  /\ (Waiting("s2") ~> ~Waiting("s2"))

\* A wait called with a timeout over the cap has returned its timeout
\* result, for 90 seconds, at time 91, its last heartbeat made then.
C17_Witness ==
  /\ ret["s2"] = [op |-> "wait", status |-> "timeout", messages |-> <<>>,
                  waited |-> 90]
  /\ tool["s2"] = Idle
  /\ now = 91
  /\ \E r \in sessions["L"] : r.session_id = "s2" /\ r.last_seen = 91

(***************************************************************************)
(* SpecNap: on machine L session s2 (agent B) waits with short timeouts    *)
(* while session s1 (agent A) sends to it and the hook of s2 fetches.      *)
(***************************************************************************)
TimeoutsNap == {1, 3}

NextNap ==
  \/ \E s \in SidsFetch : join_call(s, AgentFetch[s], "n1")
  \/ \E s \in SidsFetch : join_commit("L", s)
  \/ send_message("L", "s1", "B", 1, MaxMsgsNap)
  \/ send_insert("L", "s1")
  \/ \E timeout \in TimeoutsNap : wait_for_message("L", "s2", timeout, MaxClockNap)
  \/ wait_poll("L", "s2")
  \/ wait_select("L", "s2")
  \/ fetch_and_deliver("L", "s2")
  \/ wait_heartbeat("L", "s2")
  \/ wait_wake("L", "s2")
  \/ hook_check_inbox("L", "s2")
  \/ hook_deliver("L", "s2")
  \/ Second(MaxClockNap, MaxLateness)

SpecNap == Init /\ [][NextNap]_vars

\* Session s is suspended in asyncio.sleep between two polls.
Sleeping(s) == tool[s].op = "wait" /\ tool[s].pc = "sleep"

\* C18: a wait suspended between polls holds no store connection, hence no
\* transaction and no write lock that could block another process.
C18_SleepHoldsNoConnection ==
  \A s \in SidsFetch : Sleeping(s) => tool[s].db = "closed"

\* While s2 sleeps with its connection closed, s1 has inserted a message
\* for it: pending, created after the poll that preceded this sleep.
C18_Witness ==
  /\ Sleeping("s2") /\ tool["s2"].db = "closed"
  /\ now = tool["s2"].wake
  /\ \E r \in messages["L"] :
       r.recipient_id = "B" /\ r.status = "pending" /\ r.created_at = now

(***************************************************************************)
(* SpecValid: every operation that validates its input is called with     *)
(* valid and invalid input.  Sessions s1 (A) and s2 (B) of machine L and   *)
(* r1 (B) of machine R join; s1 sends, broadcasts and names a peer badly;  *)
(* u1 tries to pair the unconfigured U; any client posts pairing requests, *)
(* acceptances and deliveries to R.                                        *)
(***************************************************************************)
SidsValid   == {"s1", "s2", "r1"}
AgentsValid == [s \in SidsValid |-> IF s = "s1" THEN {"A", "a.b"} ELSE {"B"}]
SizesValid  == {1, MAX_CONTENT + 1}
FieldsValid == {"", "X"}

NextValid ==
  \/ \E s \in SidsValid : \E a \in AgentsValid[s] : join_call(s, a, "n1")
  \/ \E s \in SidsValid : join_commit(MachineOf(s), s)
  \/ \E c \in SizesValid : send_message("L", "s1", "B", c, MaxMsgsValid)
  \/ send_insert("L", "s1")
  \/ \E c \in SizesValid : broadcast("L", "s1", c, MaxMsgsValid)
  \/ broadcast_commit("L", "s1")
  \/ pair_with("L", "s1", "R", "a.b", "k")
  \/ pair_with("U", "u1", "R", "R", "k")
  \/ \E name, url \in FieldsValid :
       pair_request("R", "h1", name, url, "k", MaxMsgsValid)
  \/ post_pair_accept("R", "X", MaxMsgsValid)
  \/ \E to \in {"B", NULL}, c \in SizesValid :
       handle_deliver("R", "h2", "k", "A", "n1", to, c, FALSE, MaxMsgsValid)
  \/ deliver_insert("R", "h2")

SpecValid == Init /\ [][NextValid]_vars

\* The results of a tool call rejected for its input.
ValidationErrors ==
  {[op |-> "join", error |-> "invalid_agent_id", agent_id |-> a] :
     a \in {"", "a.b"}}
  \cup {[op |-> "send", error |-> "too_large", size |-> c] : c \in SizesValid}
  \cup {[op |-> "broadcast", error |-> "too_large"],
        [op |-> "pair", error |-> "invalid_name"],
        [op |-> "pair", error |-> "no_local_url"]}

\* C20: a step in which a tool call returns a validation error, or an HTTP
\* handler answers 400, leaves every table of every store as it was: no
\* session, message, peer record or notification is written.
C20_Step ==
  /\ \A s \in Sids :
       (ret'[s] # ret[s] /\ ret'[s] \in ValidationErrors)
         => <<sessions, messages, nextId, peers>>' = <<sessions, messages, nextId, peers>>
  /\ \A m \in Machines, h \in Threads :
       (/\ http'[m][h] # http[m][h]
        /\ http'[m][h].op = "response"
        /\ http'[m][h].code = 400)
         => <<sessions, messages, nextId, peers>>' = <<sessions, messages, nextId, peers>>

C20_RejectedInputNotPersisted == [][C20_Step]_vars

\* Rejections have happened next to stores that hold rows: an oversized
\* send, a pairing without a local address, a pairing request without its
\* fields and a delivery from an approved peer answered 400.
C20_Witness ==
  /\ ret["s1"] = [op |-> "send", error |-> "too_large", size |-> MAX_CONTENT + 1]
  /\ ret["u1"] = [op |-> "pair", error |-> "no_local_url"]
  /\ http["R"]["h1"] = [op |-> "response", code |-> 400,
                        path |-> "pair_request", header |-> NoHeader]
  /\ http["R"]["h2"] = [op |-> "response", code |-> 400,
                        path |-> "deliver", header |-> "k"]
  /\ sessions["L"] # {} /\ peers["R"] # {} /\ peers["U"] = {}
  /\ \A r \in peers["R"] : r.name # "" /\ r.url # ""

(***************************************************************************)
(* SpecName: session s1 on machine L joins, and joins again, under every   *)
(* identifier of up to MaxLenName characters drawn from letters, a digit,  *)
(* underscore, hyphen, dot, space and newline.                             *)
(***************************************************************************)
RECURSIVE Words(_, _)
Words(chars, len) ==
  IF len = 0 THEN {""}
  ELSE Words(chars, len - 1)
         \cup {w \o c : w \in Words(chars, len - 1), c \in chars}

NextName ==
  \/ \E a \in Words({"a", "Z", "7", "_", "-", ".", " ", "\n"}, MaxLenName) :
       join_call("s1", a, "n1")
  \/ join_commit("L", "s1")

SpecName == Init /\ [][NextName]_vars

\* The identifier consists of one or more letters, digits, underscores and
\* hyphens and of nothing else.
WholeIdentifier(a) ==
  /\ Len(a) >= 1
  /\ \A i \in 1..Len(a) :
       SubSeq(a, i, i) \in
         {"a", "Z", "7", "_", "-"}

\* C21: join goes ahead with an identifier only if the whole identifier is
\* made of letters, digits, underscores and hyphens, and answers every
\* other identifier with the invalid-identifier error.
C21_Step ==
  /\ (tool["s1"] = Idle /\ tool'["s1"].op = "join")
       => WholeIdentifier(tool'["s1"].agent_id)
  /\ \A a \in Words({"a", "Z", "7", "_", "-", ".", " ", "\n"}, MaxLenName) :
       (ret'["s1"] # ret["s1"]
        /\ ret'["s1"] = [op |-> "join", error |-> "invalid_agent_id",
                         agent_id |-> a])
         => ~WholeIdentifier(a)

C21_JoinIffWholeIdentifier == [][C21_Step]_vars

(***************************************************************************)
(* Claims about the recipient lookup of send (SpecRate, SpecRelay)         *)
(***************************************************************************)
\* C25: a send to a name with no live local session in the caller's
\* network, that is with no session row or only rows idle for more than 30
\* seconds, inserts no local message: the call does not go on to the local
\* INSERT but to the relay or to the not-found error.
C25_Step ==
  (/\ tool["s1"] = Idle
   /\ HasIdentity(sessions["L"], "s1")
   /\ \/ tool'["s1"].op \in {"send", "relay"}
      \/ ret'["s1"] # ret["s1"] /\ ret'["s1"].op = "send"
   /\ \A r \in sessions["L"] :
        (r.agent_id = "B" /\ r.network_id = "n1") => now - r.last_seen > 30)
    => /\ tool'["s1"].op # "send"
       /\ messages' = messages

C25_NoLiveSessionNoLocalInsert == [][C25_Step]_vars

\* C27: once a peer lists the recipient and the deliver POST is attempted,
\* the send ends as "sent to peer" only on status 200 and as the peer's
\* error on every other outcome, a failed connection included; it never ends
\* as "recipient not found".
C27_Step ==
  (tool["s1"].op \in {"relay_deliver", "relay_wait"} /\ tool'["s1"] = Idle)
    => \/ /\ ret'["s1"] = [op |-> "send", status |-> "sent_to_peer",
                           peer |-> tool["s1"].peer.name, to |-> tool["s1"].to]
          /\ tool["s1"].op = "relay_wait"
          /\ http[tool["s1"].peer.url][tool["s1"].thread].code = 200
       \/ /\ \E code \in {0, 400, 401, 404, 429, 500} :
               ret'["s1"] = [op |-> "send", error |-> "peer_rejected",
                             peer |-> tool["s1"].peer.name, code |-> code]
          /\ tool["s1"].op = "relay_wait"
               => http[tool["s1"].peer.url][tool["s1"].thread].code # 200

C27_PostOutcomeReported == [][C27_Step]_vars

(***************************************************************************)
(* SpecMesh: machine L, where session s1 is agent A, gets records for the  *)
(* peers R and U, which get records for L; r1 joins on R and u1 on U, both *)
(* as C.  Session s1 sends to C; connections fail or succeed and a waiting *)
(* send may time out.                                                      *)
(***************************************************************************)
\* Machine m holds at least k approved, mutual peer records.
Paired(m, k) == Cardinality(ApprovedPeers(peers[m])) >= k

\* The three machines are paired with one another before their sessions
\* join: the pairing requests then notify nobody.
MeshPaired == Paired("L", 2) /\ Paired("R", 1) /\ Paired("U", 1)

NextMesh ==
  \/ MeshPaired /\ join_call("s1", "A", "n1")
  \/ MeshPaired /\ \E s \in {"r1", "u1"} : join_call(s, "C", "n1")
  \/ \E s \in {"s1", "r1", "u1"} : join_commit(MachineOf(s), s)
  \/ ~MeshPaired /\ \E x \in {"R", "U"} :
       post_pair_request("L", x, x, "k", MaxMsgsMesh)
  \/ ~MeshPaired /\ \E x \in {"R", "U"} :
       post_pair_request(x, "L", "L", "k", MaxMsgsMesh)
  \/ \E x \in {"R", "U"} : post_pair_accept("L", x, MaxMsgsMesh)
  \/ \E x \in {"R", "U"} : post_pair_accept(x, "L", MaxMsgsMesh)
  \/ send_message("L", "s1", "C", 1, MaxMsgsMesh)
  \/ relay_query("L", "s1", TRUE)
  \/ \E up \in BOOLEAN : relay_post("L", "s1", "h1", up, MaxMsgsMesh)
  \/ relay_timeout("L", "s1")
  \/ relay_return("L", "s1")
  \/ \E x \in {"R", "U"} : deliver_insert(x, "h1")

SpecMesh == Init /\ [][NextMesh]_vars

(***************************************************************************)
(* SpecBcast: machine L, with sessions s1 (agent A) and s2 (agent B), and  *)
(* machine R, where r1 joins as A or C, get records for each other.        *)
(* Session s1 sends to C, broadcasts and lists the agents; connections     *)
(* fail or succeed.                                                        *)
(***************************************************************************)
\* L and R are paired with each other before the sessions join (the
\* pairing requests then notify nobody); the request that names U is never
\* accepted, so its record on L stays pending.
BcastPaired == Paired("L", 1) /\ Paired("R", 1)

\* The secrets of the pairings: a chosen one and the default, empty one.
SecretsBcast == {"k", ""}

NextBcast ==
  \/ \E s \in {"s1", "s2"} :
       /\ BcastPaired /\ ~HasIdentity(sessions["L"], s)
       /\ join_call(s, AgentFetch[s], "n1")
  \/ \E a \in {"A", "C"} :
       /\ BcastPaired /\ ~HasIdentity(sessions["R"], "r1")
       /\ join_call("r1", a, "n1")
  \/ \E s \in {"s1", "s2", "r1"} : join_commit(MachineOf(s), s)
  \/ ~BcastPaired /\ \E x \in {"R", "U"}, k \in SecretsBcast :
       post_pair_request("L", x, x, k, MaxMsgsBcast)
  \/ ~BcastPaired /\ \E k \in SecretsBcast :
       post_pair_request("R", "L", "L", k, MaxRemoteBcast)
  \/ ~BcastPaired /\ post_pair_accept("L", "R", MaxMsgsBcast)
  \/ ~BcastPaired /\ post_pair_accept("R", "L", MaxRemoteBcast)
  \/ send_message("L", "s1", "C", 1, MaxMsgsBcast)
  \/ \E up \in BOOLEAN : relay_query("L", "s1", up)
  \/ \E up \in BOOLEAN : relay_post("L", "s1", "h1", up, MaxRemoteBcast)
  \/ relay_return("L", "s1")
  \/ broadcast("L", "s1", 1, MaxMsgsBcast)
  \/ broadcast_commit("L", "s1")
  \/ \E up \in BOOLEAN : broadcast_post("L", "s1", "h1", up, MaxRemoteBcast)
  \/ broadcast_collect("L", "s1")
  \/ list_agents("L", "s1")
  \/ \E up \in BOOLEAN : list_query("L", "s1", up)
  \/ deliver_insert("R", "h1")

SpecBcast == Init /\ [][NextBcast]_vars

\* Inbound deliveries on L, where A and B are joined, from the agent C of
\* the approved peer R.  The peer first sends plain messages to B; from
\* FillDeliver pending messages on, requests of every kind arrive, on two
\* threads.
ContentsDeliver == {1, MAX_CONTENT + 1}

NextDeliver ==
  \/ \E s \in SidsFetch :
       /\ Paired("L", 1) /\ ~HasIdentity(sessions["L"], s)
       /\ join_call(s, AgentFetch[s], "n1")
  \/ \E s \in SidsFetch : join_commit("L", s)
  \/ ~Paired("L", 1) /\ post_pair_request("L", "R", "R", "k", MaxMsgsDeliver)
  \/ ~Paired("L", 1) /\ post_pair_accept("L", "R", MaxMsgsDeliver)
  \/ handle_deliver("L", "h1", "k", "C", "n1", "B", 1, FALSE, MaxMsgsDeliver)
  \/ \E h \in Threads, hd \in {NoHeader, "k"}, to \in {"B", "Z", NULL},
        c \in ContentsDeliver, bc \in BOOLEAN :
       /\ PendingFrom(messages["L"], "C") >= FillDeliver
       /\ handle_deliver("L", h, hd, "C", "n1", to, c, bc, MaxMsgsDeliver)
  \/ \E h \in Threads : deliver_insert("L", h)

SpecDeliver == Init /\ [][NextDeliver]_vars

\* Two networks on L with the same agent names: A sends to B in each of
\* them, and both sessions named B fetch.
NextNets ==
  \/ \E s \in SidsCap :
       ~HasIdentity(sessions["L"], s) /\ join_call(s, AgentCap[s], NetCap[s])
  \/ \E s \in SidsCap : join_commit("L", s)
  \/ \E s \in SendersCap : send_message("L", s, "B", 1, MaxMsgsNets)
  \/ \E s \in SendersCap : send_insert("L", s)
  \/ \E s \in SidsCap \ SendersCap : check_inbox("L", s)
  \/ \E s \in SidsCap \ SendersCap : fetch_and_deliver("L", s)

SpecNets == Init /\ [][NextNets]_vars

(***************************************************************************)
(* Claims about the relay to several peers (SpecMesh)                      *)
(***************************************************************************)
\* C28: one send call that falls through to the relay sends its message to
\* at most one peer: after a deliver POST, failed or not, the call posts to
\* no other peer, so at most one row is inserted across the remote stores.
C28_AtMostOnce ==
  tool["s1"].op \in {"relay", "relay_deliver", "relay_wait"}
    => Cardinality(tool["s1"].posted) <= 1

(***************************************************************************)
(* Claims about list_agents and broadcast across machines (SpecBcast)      *)
(***************************************************************************)
\* C22: the list that list_agents returns to the joined agent A holds A
\* exactly once, and that entry is the one marked as the caller, whatever
\* the local sessions and the peers report.
C22_CallerListedOnce ==
  ret["s1"].op = "list"
    => /\ Cardinality({e \in ret["s1"].agents : e.agent_id = "A"}) = 1
       /\ \A e \in ret["s1"].agents : e.agent_id = "A" => e.is_you

\* C24: a broadcast of A that passes the size check attempts the relay to
\* the approved, mutual peers: when it returns a result that is not an
\* error, either it comes out of the loop over those peers or L has no such
\* peer.
C24_Step ==
  (/\ ret'["s1"] # ret["s1"]
   /\ ret'["s1"].op = "broadcast"
   /\ "error" \notin DOMAIN ret'["s1"])
    => \/ tool["s1"].op \in {"broadcast_relay", "broadcast_wait"}
       \/ {p \in peers["L"] : p.status = "approved" /\ p.direction = "mutual"} = {}

C24_BroadcastAlwaysRelays == [][C24_Step]_vars

\* C23: when the broadcast of A commits, every other local agent the call
\* read gets exactly one pending, broadcast-flagged row from A or is
\* recorded as skipped, never both and never neither; nobody else gets a
\* row, the sender included; the local count is the number of rows
\* inserted.
C23_CommitStep ==
  (tool["s1"].op = "broadcast" /\ tool'["s1"].op # "broadcast")
    => LET new == messages'["L"] \ messages["L"]
           out == IF tool'["s1"].op = "broadcast_relay"
                    THEN tool'["s1"] ELSE ret'["s1"]
       IN /\ \A r \in new : /\ r.recipient_id \in tool["s1"].others
                            /\ r.recipient_id # "A"
                            /\ r.sender_id = "A"
                            /\ r.is_broadcast
                            /\ r.status = "pending"
          /\ \A b \in tool["s1"].others :
               Cardinality({r \in new : r.recipient_id = b})
                 = (IF b \in out.skipped THEN 0 ELSE 1)
          /\ out.recipient_count = Cardinality(new)

\* The remote count of a broadcast result.
C23_Remote(r) == IF "remote_count" \in DOMAIN r THEN r.remote_count ELSE 0

\* C23: the loop over the peers changes neither the local rows nor the
\* local count nor the skipped agents; a peer that is unreachable or
\* answers another status than 200 leaves the remote count as it was.
C23_RelayStep ==
  (/\ tool["s1"].op \in {"broadcast_relay", "broadcast_wait"}
   /\ tool'["s1"] # tool["s1"])
    => LET out == IF tool'["s1"] = Idle THEN ret'["s1"] ELSE tool'["s1"]
           failed == IF tool["s1"].op = "broadcast_relay"
                       THEN tool'["s1"].op # "broadcast_wait"
                       ELSE http[tool["s1"].peer.url][tool["s1"].thread].code # 200
       IN /\ messages'["L"] = messages["L"]
          /\ out.recipient_count = tool["s1"].recipient_count
          /\ out.skipped = tool["s1"].skipped
          /\ C23_Remote(out) >= tool["s1"].remote_count
          /\ failed => C23_Remote(out) = tool["s1"].remote_count

C26_LoopOps ==
  {"relay", "relay_deliver", "relay_wait", "list", "broadcast_relay",
   "broadcast_wait"}

\* C26: when send_message, broadcast or list_agents of A reads the peers
\* table, the peers it will contact are exactly the records that are
\* approved and mutual at that moment.
C26_ReadStep ==
  (tool["s1"].op \notin C26_LoopOps /\ tool'["s1"].op \in C26_LoopOps)
    => tool'["s1"].peers =
         {p \in peers["L"] : p.status = "approved" /\ p.direction = "mutual"}

\* C26: inside the loop the peers still to contact only shrink, the peer
\* being contacted is one of those read, and a request reaches a machine
\* only as the POST to that peer's url.
C26_LoopStep ==
  (tool["s1"].op \in C26_LoopOps /\ tool'["s1"] # tool["s1"])
    => /\ tool'["s1"].op \in C26_LoopOps
            => tool'["s1"].peers \subseteq tool["s1"].peers
       /\ (tool'["s1"].op \in C26_LoopOps /\ "peer" \in DOMAIN tool'["s1"])
            => \/ tool'["s1"].peer \in tool["s1"].peers
               \/ /\ "peer" \in DOMAIN tool["s1"]
                  /\ tool'["s1"].peer = tool["s1"].peer
       /\ \A x \in Machines :
            http'[x] # http[x]
              => /\ tool'["s1"].op \in {"relay_wait", "broadcast_wait"}
                 /\ tool'["s1"].peer.url = x
                 /\ tool'["s1"].peer.status = "approved"
                 /\ tool'["s1"].peer.direction = "mutual"

\* C26: the machine behind the record that stays pending never gets a
\* request.
C26_PendingSilent ==
  \A h \in Threads : ~Serving("U", h) /\ http'["U"] = http["U"]

C26_RelayOnlyToApproved ==
  [][C26_ReadStep /\ C26_LoopStep /\ C26_PendingSilent]_vars

\* A's message is on its way to the approved peer R while the record of U
\* on L is pending.
C26_Witness ==
  /\ tool["s1"].op \in {"relay_wait", "broadcast_wait"}
  /\ tool["s1"].peer.name = "R"
  /\ Serving("R", "h1")
  /\ \E p \in peers["L"] : p.name = "U" /\ p.status = "pending"

(***************************************************************************)
(* Claims about POST /api/deliver (SpecDeliver)                            *)
(***************************************************************************)
\* What the claim says of one request to L from C of the peer R, handled on
\* thread h: at 20 or more pending messages of C the answer is 429 and no
\* row is inserted; under the cap a broadcast is accepted for exactly the
\* agents of the network on L and a message to a known agent for that agent
\* alone.
C29_Outcome(h, to, bc) ==
  LET pending == Cardinality({r \in messages["L"] :
                                r.sender_id = "C" /\ r.status = "pending"})
      known   == {r.agent_id : r \in {x \in sessions["L"] : x.network_id = "n1"}}
      resp    == http'["L"][h]
  IN IF pending >= PENDING_CAP_PER_PEER
       THEN resp.op = "response" /\ resp.code = 429 /\ messages' = messages
     ELSE IF bc
       THEN /\ resp.op = "deliver" /\ resp.is_broadcast
            /\ Len(resp.to) = Cardinality(known)
            /\ {resp.to[i] : i \in 1..Len(resp.to)} = known
     ELSE to \in known
            => resp.op = "deliver" /\ ~resp.is_broadcast /\ resp.to = <<to>>

\* The request carries the secret of an approved, mutual peer of L.
C29_Authenticated(hd) ==
  /\ hd # NoHeader
  /\ \E r \in peers["L"] : /\ r.status = "approved" /\ r.direction = "mutual"
                           /\ r.shared_secret = hd

\* An accepted request inserts exactly one pending row per recipient it
\* was accepted for, and answers 200.
C29_InsertStep ==
  \A h \in Threads :
    (Serving("L", h) /\ http'["L"][h] # http["L"][h])
      => LET req == http["L"][h]
             new == messages'["L"] \ messages["L"]
         IN /\ Cardinality(new) = Len(req.to)
            /\ \A i \in 1..Len(req.to) :
                 Cardinality({r \in new : /\ r.recipient_id = req.to[i]
                                          /\ r.sender_id = req.sender_id
                                          /\ r.network_id = req.network_id
                                          /\ r.is_broadcast = req.is_broadcast
                                          /\ r.status = "pending"}) = 1
            /\ http'["L"][h].code = 200

\* C29 as stated: every authenticated deliver request is answered by the
\* pending cap first.
C29_Step ==
  /\ \A h \in Threads, hd \in {NoHeader, "k"}, to \in {"B", "Z", NULL},
        c \in ContentsDeliver, bc \in BOOLEAN :
       (/\ handle_deliver("L", h, hd, "C", "n1", to, c, bc, MaxMsgsDeliver)
        /\ C29_Authenticated(hd))
         => C29_Outcome(h, to, bc)
  /\ C29_InsertStep

C29_DeliverCap == [][C29_Step]_vars

\* C29 for requests whose content is within the size limit.
C29_StepSized ==
  /\ \A h \in Threads, hd \in {NoHeader, "k"}, to \in {"B", "Z", NULL},
        c \in ContentsDeliver, bc \in BOOLEAN :
       (/\ handle_deliver("L", h, hd, "C", "n1", to, c, bc, MaxMsgsDeliver)
        /\ C29_Authenticated(hd)
        /\ c <= MAX_CONTENT)
         => C29_Outcome(h, to, bc)
  /\ C29_InsertStep

C29_DeliverCapSized == [][C29_StepSized]_vars

\* C has its 20 pending messages on L, a broadcast row among them, and a
\* request of C has been answered 429.
C29_Witness ==
  /\ Cardinality({r \in messages["L"] : r.sender_id = "C" /\ r.status = "pending"})
       >= PENDING_CAP_PER_PEER
  /\ \E r \in messages["L"] : r.sender_id = "C" /\ r.is_broadcast
  /\ \E h \in Threads : http["L"][h].op = "response" /\ http["L"][h].code = 429

(***************************************************************************)
(* Claims about pair_with (SpecPeer)                                       *)
(***************************************************************************)
\* The write of pair_with on L leaves exactly one record of the name, with
\* the url and secret of the call, pending and outbound.
C30_UpsertStep ==
  (tool["s1"].op = "pair" /\ tool'["s1"].op = "pair_notify")
    => {r \in peers'["L"] : r.name = tool["s1"].name}
         = {[name |-> tool["s1"].name, url |-> tool["s1"].url,
             shared_secret |-> tool["s1"].secret, status |-> "pending",
             direction |-> "outbound"]}

\* Whatever the remote answers (no connection, 200, an error status), the
\* call returns status pending for the name and leaves the peers of L as
\* they are; only 200 comes without a warning.
C30_NotifyStep ==
  (tool["s1"].op = "pair_notify" /\ tool'["s1"] = Idle)
    => /\ peers'["L"] = peers["L"]
       /\ ret'["s1"].op = "pair"
       /\ ret'["s1"].status = "pending"
       /\ ret'["s1"].peer = tool["s1"].name
       /\ ret'["s1"].status_code \in {0, 200, 404}

\* C30 as stated: every pair call of s1 on L, whose names are valid and
\* whose local address is configured, goes on to the write.
C30_Step ==
  /\ \A url \in UrlsPeer, name \in NamesPeer, k \in SecretsPeer :
       pair_with("L", "s1", url, name, k) => tool'["s1"].op = "pair"
  /\ C30_UpsertStep
  /\ C30_NotifyStep

C30_PairAlwaysPending == [][C30_Step]_vars

\* C30 for names that L is not already paired with; for a name whose
\* record is mutual the call returns an error and writes nothing.
C30_StepUnpaired ==
  /\ \A url \in UrlsPeer, name \in NamesPeer, k \in SecretsPeer :
       pair_with("L", "s1", url, name, k)
         => IF \E r \in peers["L"] : r.name = name /\ r.direction = "mutual"
              THEN /\ ret'["s1"] = [op |-> "pair", error |-> "already_paired"]
                   /\ tool'["s1"] = Idle
                   /\ peers' = peers
              ELSE tool'["s1"].op = "pair"
  /\ C30_UpsertStep
  /\ C30_NotifyStep

C30_PairPendingUnlessPaired == [][C30_StepUnpaired]_vars

\* The remote answered a pair call with an error status; the call returned
\* status pending and the record on L is pending and outbound.
C30_Witness ==
  /\ ret["s1"].op = "pair"
  /\ "status" \in DOMAIN ret["s1"]
  /\ ret["s1"].status = "pending"
  /\ ret["s1"].status_code = 404
  /\ \E r \in peers["L"] : /\ r.name = ret["s1"].peer
                           /\ r.status = "pending" /\ r.direction = "outbound"

(***************************************************************************)
(* Claims about the inbound pairing requests (SpecAuth)                    *)
(***************************************************************************)
\* C31: a pairing request from L that R has already processed (its record
\* of L is pending and inbound with the url and secret of the request, and
\* the sessions of R have been notified) leaves the store of R as it is
\* when it is processed again: the same one record, no further row.
C31_Step ==
  \A k \in SecretsAuth :
    (/\ post_pair_request("R", "L", "L", k, MaxMsgsAuth)
     /\ {r \in peers["R"] : r.name = "L"}
          = {[name |-> "L", url |-> "L", shared_secret |-> k,
              status |-> "pending", direction |-> "inbound"]}
     /\ \E r \in messages["R"] : r.sender_id = "_system")
      => /\ peers'["R"] = peers["R"]
         /\ messages'["R"] = messages["R"]

C31_PairRequestIdempotent == [][C31_Step]_vars

(***************************************************************************)
(* Claims about the liveness stamp of a session (SpecFetch)                *)
(***************************************************************************)
\* C32: when a send or a fetch of a joined session returns its result, the
\* session's last_seen is the time of the call, so that nobody can take the
\* agent id over during the next 30 seconds.
C32_Step ==
  \A s \in SidsFetch :
    (/\ ret'[s] # ret[s]
     /\ ret'[s].op \in {"send", "fetch"}
     /\ "error" \notin DOMAIN ret'[s])
      => \A r \in sessions'["L"] : r.session_id = s => r.last_seen = now

C32_MailboxRefreshesLastSeen == [][C32_Step]_vars

(***************************************************************************)
(* Claims about the order of a batch (SpecSweep)                           *)
(***************************************************************************)
\* C33: a batch selected for B holds B's pending messages in the order of
\* their insertion (the order of their ids), oldest first, and leaves no
\* pending message behind that was inserted before one it holds.
C33_Step ==
  (hook["s2"] = Idle /\ hook'["s2"].op = "fetch")
    => LET q == hook'["s2"].rows
       IN /\ \A i, j \in 1..Len(q) : i < j => q[i] < q[j]
          /\ \A r \in messages["L"] :
               (/\ r.recipient_id = "B" /\ r.status = "pending"
                /\ \A i \in 1..Len(q) : q[i] # r.id)
                 => \A i \in 1..Len(q) : q[i] < r.id

TimesCache == Instants(AGENT_EXPIRY_SECONDS, MaxSecsCache, MaxSecsCache)

CachePaired == Paired("L", 1) /\ Paired("R", 1)

NextCache ==
  \/ CachePaired /\ ~HasIdentity(sessions["L"], "s1") /\ join_call("s1", "A", "n1")
  \/ CachePaired /\ ~HasIdentity(sessions["R"], "r1") /\ join_call("r1", "B", "n1")
  \/ join_commit("L", "s1")
  \/ join_commit("R", "r1")
  \/ ~CachePaired /\ post_pair_request("L", "R", "R", "k", MaxMsgsCache)
  \/ ~CachePaired /\ post_pair_request("R", "L", "L", "k", MaxMsgsCache)
  \/ ~CachePaired /\ post_pair_accept("L", "R", MaxMsgsCache)
  \/ ~CachePaired /\ post_pair_accept("R", "L", MaxMsgsCache)
  \/ CachePaired /\ send_message("L", "s1", "B", 1, MaxMsgsCache)
  \/ \E up \in BOOLEAN : relay_query("L", "s1", up)
  \/ \E up \in BOOLEAN : relay_post("L", "s1", "h2", up, MaxMsgsCache)
  \/ deliver_insert("R", "h2")
  \/ relay_return("L", "s1")
  \/ Tick(TimesCache)

SpecCache == Init /\ [][NextCache]_vars

(***************************************************************************)
(* Claims about the cache of remote agents (SpecCache)                     *)
(***************************************************************************)
\* C34: a lookup of the agents of peer R by the process of s1 that finds an
\* entry for (R, network) younger than 30 seconds sends no request: the
\* cache stays as it is and the entry decides whether the recipient is on
\* R.  Without such an entry the peer is asked; its answer is cached with
\* the time of the query when it is 200, and nothing is cached when the
\* query fails.
C34_Step ==
  \A up \in BOOLEAN :
    relay_query("L", "s1", up)
      => LET n     == tool["s1"].network_id
             fresh == {e \in cache["s1"] : /\ e.peer = "R" /\ e.network_id = n
                                           /\ now - e.fetched_at < 30}
             ok    == /\ up
                      /\ \E p \in tool["s1"].peers, r \in peers["R"] :
                           /\ p.shared_secret # ""
                           /\ r.shared_secret = p.shared_secret
                           /\ r.status = "approved" /\ r.direction = "mutual"
             listed == {x.agent_id : x \in {y \in sessions["R"] : y.network_id = n}}
         IN IF fresh # {}
              THEN /\ cache' = cache
                   /\ \A e \in fresh :
                        (tool'["s1"].op = "relay_deliver") <=> (tool["s1"].to \in e.agents)
            ELSE IF ok
              THEN {e \in cache'["s1"] : e.peer = "R" /\ e.network_id = n}
                     = {[peer |-> "R", network_id |-> n, agents |-> listed,
                         fetched_at |-> now]}
            ELSE cache' = cache

C34_ListingCachedThirtySeconds == [][C34_Step]_vars

\* The entry of second 0 has expired, R has been asked again at second 30
\* and its answer, which lists B, is cached with that time.
C34_Witness ==
  /\ now = 30
  /\ tool["s1"].op = "relay_deliver"
  /\ \E e \in cache["s1"] : e.peer = "R" /\ e.fetched_at = 30 /\ e.agents = {"B"}

(***************************************************************************)
(* Claims about the stop hook (SpecFetch)                                  *)
(***************************************************************************)
\* C35: the stop hook of B's session blocks a stop only on the first
\* attempt (stop_hook_active false) of a joined session that has a pending
\* message.
C35_Step ==
  \A active \in BOOLEAN :
    (stop_hook("L", "s2", active) /\ ret'["s2"].decision = "block")
      => /\ ~active
         /\ \E r \in sessions["L"] : r.session_id = "s2"
         /\ \E r \in messages["L"] : r.recipient_id = "B" /\ r.status = "pending"

C35_StopHookLetsGo == [][C35_Step]_vars

(***************************************************************************)
(* Claims about two networks in one store (SpecNets)                       *)
(***************************************************************************)
\* C36: every message a fetch returns to the session that is B in network
\* n2 was sent within n2, or is a pairing notification.
C36_NetworkIsolation ==
  ret["s4"].op = "fetch"
    => \A i \in 1..Len(ret["s4"].messages) :
         \A r \in messages["L"] :
           r.id = ret["s4"].messages[i]
             => r.network_id \in {"n2", "_peer_system"}

(***************************************************************************)
(* Claims about the results of a wait (SpecNap)                            *)
(***************************************************************************)
\* C37: the wait of B's session ends with a result that holds at least one
\* message, or with the timeout result at or after its deadline.
C37_Step ==
  (tool["s2"].op \in {"wait", "wait_fetch", "fetch"} /\ tool'["s2"] = Idle)
    => \/ Len(ret'["s2"].messages) >= 1
       \/ /\ tool["s2"].op = "wait"
          /\ ret'["s2"].op = "wait"
          /\ ret'["s2"].status = "timeout"
          /\ now >= tool["s2"].deadline

C37_WaitResults == [][C37_Step]_vars

(***************************************************************************)
(* Claims about an established pairing (SpecAuth)                          *)
(***************************************************************************)
\* C38: a record of R that is approved and mutual keeps its status,
\* direction, url and secret in every step but the remove_peer of R's own
\* operator.
C38_Step ==
  \A r \in peers["R"] :
    (r.status = "approved" /\ r.direction = "mutual" /\ r \notin peers'["R"])
      => remove_peer("R", "r1", r.name)

C38_TrustEndsLocally == [][C38_Step]_vars

(***************************************************************************)
(* Claims about the number of pending relayed messages (SpecDeliver)       *)
(***************************************************************************)
\* C39: the store of L never holds more than 20 pending messages of the
\* relayed sender C.
C39_PendingAtMostCap ==
  Cardinality({r \in messages["L"] : r.sender_id = "C" /\ r.status = "pending"})
    <= PENDING_CAP_PER_PEER

(***************************************************************************)
(* Claims about the bearer check of a relay (SpecBcast)                    *)
(***************************************************************************)
\* L and R hold approved, mutual records for each other with the same
\* secret, and C is joined to n1 on R.
C40_Established ==
  /\ \E p \in peers["L"], r \in peers["R"] :
       /\ p.name = "R" /\ p.status = "approved" /\ p.direction = "mutual"
       /\ r.name = "L" /\ r.status = "approved" /\ r.direction = "mutual"
       /\ p.shared_secret = r.shared_secret
       /\ tool["s1"].peers \cup
            (IF "peer" \in DOMAIN tool["s1"] THEN {tool["s1"].peer} ELSE {}) = {p}
  /\ \E x \in sessions["R"] : x.agent_id = "C" /\ x.network_id = "n1"

\* C40: with the pairing established and R reachable, the listing query of
\* A's send to C finds C on R, and the deliver POST is accepted by R.
C40_Step ==
  /\ (/\ relay_query("L", "s1", TRUE)
      /\ C40_Established
      /\ cache["s1"] = {})
       => tool'["s1"].op = "relay_deliver"
  /\ (/\ relay_post("L", "s1", "h1", TRUE, MaxRemoteBcast)
      /\ C40_Established)
       => Serving("R", "h1")'

C40_RelayAcceptedForEverySecret == [][C40_Step]_vars

====
